---- MODULE Spec2Model ----
(***************************************************************************)
(* Champa Store: webhook notification dispatcher (WebhookService), the     *)
(* order submission flow of the order modal (handleSubmit), the discount   *)
(* calculation, the username check, and the staff pages (Admin.tsx and     *)
(* OrderManager) with the backend they call.                               *)
(*                                                                         *)
(* The specifications share the variables:                                 *)
(*   SpecDispatch      one call of WebhookService.sendDiscordNotification  *)
(*   SpecSubmit        submissions of the order modal against the backend  *)
(*   SpecDiscount      the discount functions applied to drawn inputs      *)
(*   SpecUsername      the username field and its validation               *)
(*   SpecSanitize      sanitizeWebhookContent applied to drawn messages    *)
(*   SpecAdminPage     two sessions of the Admin page                      *)
(*   SpecOrderStaff    an Admin and an OrderManager session, one order     *)
(*   SpecOrderManager  an OrderManager session, two orders                 *)
(*   SpecBulkDiscount  the bulk discount of the Admin page and of the rpc  *)
(*   SpecNetwork       one outbound request and its timer                  *)
(*   SpecDetails       the order details of the Admin page                 *)
(*   SpecAuth          checkAuth, login and logout of the Admin page       *)
(* Money is counted in cents; an unrounded amount is counted in            *)
(* hundredths of a cent (1/10000 of the currency unit). Time is counted    *)
(* in days.                                                                *)
(***************************************************************************)
EXTENDS Integers, Sequences, FiniteSets, TLC

VARIABLES
    \* ---- WebhookService.sendDiscordNotification ----
    webhookUrl,     \* WEBHOOK_URL: "unset", "invalid" or "valid"
    d_pc,           \* position of the call: idle, loop, fetch, text, delay, done
    attempt,        \* the loop variable of the retry loop
    requests,       \* number of fetch() calls issued
    log,            \* how each issued request settled, in order
    timers,         \* the attempts whose setTimeout timer is pending
    aborted,        \* the attempts whose AbortController was aborted
    delays,         \* number of retry delays waited
    delivered,      \* number of messages the endpoint posted to the channel
    result,         \* "none", "true", "false", or "threw" (promise rejected)
    content,        \* the DiscordWebhookContent passed to the call
    body,           \* the sanitized content sent as the body of the requests
    \* ---- OrderModal ----
    component,      \* the revision of the component that is running
    ranks,          \* the catalogue loaded by the modal: name -> rank
    demoMode,       \* React state demoMode
    completedOrder, \* React state completedOrder (NoOrder when null)
    isReceiptOpen,  \* React state isReceiptOpen
    s_pc,           \* position of handleSubmit: idle, upload, check, insert, notify
    form,           \* the inputs captured by the running/last handleSubmit
    demo,           \* the value of demoMode captured by that handleSubmit
    orderData,      \* its local orderData
    publicUrl,      \* its local publicUrl: "none", "storage" or "rank_image"
    toast,          \* what it showed: "none", "success" or "error"
    errorMessage,   \* the text of its toast.error
    fx,             \* what it attempted and how each await settled
    submitNo,       \* number of handleSubmit calls so far
    completedAt,    \* the call that last set completedOrder and the receipt
    storage,        \* bucket payment-proofs: paths of the stored objects
    orders,         \* table orders: the inserted rows, in order
    \* ---- discount functions ----
    now,            \* the current time
    c_pc,           \* the set of functions already applied to the input
    price,          \* ranks.price
    discount,       \* ranks.discount (NULL when absent)
    expiry,         \* ranks.discount_expires_at (NULL when unset)
    calc,           \* the values computed from (price, discount, expiry, now)
    \* ---- username field of the order form ----
    u_value,        \* the value of the username input
    u_pc,           \* "editing", "blocked", "rejected" or "accepted"
    u_name,         \* the username handleSubmit puts into the order
    \* ---- staff sessions (Admin page, OrderManager) and the backend ----
    rankTable,      \* table ranks: id -> row
    a_page,         \* session -> the component the session runs
    a_orders,       \* session -> React state orders (<<>> until loaded)
    a_viewing,      \* session -> React state viewingOrder (NoRow when null)
    a_ranks,        \* session -> React state ranks (NoRanks until loaded)
    a_bulk,         \* session -> bulkDiscount and bulkDiscountExpiry
    a_toast,        \* session -> the last message shown: none, success, error
    a_calls,        \* the backend calls made so far, each with its stage
    a_applied,      \* the numbers of the calls the backend applied, in order
    realtimeNotifications,  \* session -> React state realtimeNotifications
    \* ---- one outbound network request ----
    n_kind,         \* the function that issues the request
    n_pc,           \* "idle", "pending", "body" or "settled"
    n_clock,        \* the time, in ticks
    n_start,        \* the time at which the request was issued
    n_timer,        \* the time at which its timer fires (NULL: no timer)
    n_outcome,      \* how it settled: none, resolved, rejected, timeout
    \* ---- Admin page: order details and authentication ----
    selectedOrder,  \* React state selectedOrder: order number, 0 when null
    orderDetailsOpen,        \* React state orderDetailsOpen
    proxiedPaymentProofUrl,  \* React state proxiedPaymentProofUrl
    paymentProofLoading,     \* React state paymentProofLoading
    conversions,    \* the orders whose proof conversion is in flight
    views,          \* number of viewOrderDetails calls
    session,        \* the user of the persisted auth session, or "none"
    auth_pc,        \* position of checkAuth / handleLogin / handleLogout
    isAuthenticated,         \* React state isAuthenticated
    isAdmin,        \* React state isAdmin
    isAuthLoading,  \* React state isAuthLoading
    authToast,      \* the toast shown last by checkAuth or handleLogin
    mounted,        \* the Admin page is the route shown
    mounts          \* number of times the Admin page was mounted

dvars == <<webhookUrl, d_pc, attempt, requests, log, timers, aborted, delays,
           delivered, result, content, body>>

svars == <<component, ranks, demoMode, completedOrder, isReceiptOpen, s_pc,
           form, demo, orderData, publicUrl, toast, errorMessage, fx,
           submitNo, completedAt, storage, orders>>

cvars == <<now, c_pc, price, discount, expiry, calc>>

\* the storefront's variables other than table orders
storefront == <<component, ranks, demoMode, completedOrder, isReceiptOpen,
                s_pc, form, demo, orderData, publicUrl, toast, errorMessage,
                fx, submitNo, completedAt, storage>>

uvars == <<u_value, u_pc, u_name>>

avars == <<rankTable, a_page, a_orders, a_viewing, a_ranks, a_bulk, a_toast,
           a_calls, a_applied>>

nvars == <<n_kind, n_pc, n_clock, n_start, n_timer, n_outcome>>

pvars == <<selectedOrder, orderDetailsOpen, proxiedPaymentProofUrl,
           paymentProofLoading, conversions, views, session, auth_pc,
           isAuthenticated, isAdmin, isAuthLoading, mounted, mounts,
           authToast>>

xvars == <<nvars, pvars, realtimeNotifications>>

vars == <<dvars, svars, cvars, uvars, avars, xvars>>

\* null / undefined of an optional number or timestamp
NULL == -1

(***************************************************************************)
(* Discount calculation                                                    *)
(***************************************************************************)
\* Number.prototype.toFixed(2) / ROUND(v, 2) of v hundredths of a cent:
\* the nearest cent, a half rounding up
Round2(v) == (v + 50) \div 100

\* (faulty variant: truncation instead of rounding)
getDiscountedPrice_Truncates(p, d) ==
    IF d = NULL \/ d = 0 THEN p ELSE (p * (100 - d)) \div 100

\* Admin.getDiscountedPrice / OrderModal.getDiscountedPrice, in cents
getDiscountedPrice(p, d) ==
    IF d = NULL \/ d = 0 THEN p ELSE Round2(p * (100 - d))

\* OrderModal.calculateRankPrice, in hundredths of a cent (no rounding)
calculateRankPrice(rank) ==
    IF rank.discount # NULL /\ rank.discount # 0 /\ rank.discount > 0
    THEN rank.price * 100 - rank.price * rank.discount
    ELSE rank.price * 100

\* the amount renderRankPrice shows to the customer, in cents:
\* calculateRankPrice(rank).toFixed(2)
renderRankPrice(rank) ==
    IF rank.discount # NULL /\ rank.discount # 0 /\ rank.discount > 0
    THEN Round2(calculateRankPrice(rank))
    ELSE rank.price

\* (faulty variant: the expiry is compared the wrong way round)
isDiscountActive_Inverted(d, e) ==
    IF d = NULL \/ d = 0 THEN FALSE
    ELSE IF e = NULL THEN TRUE
    ELSE e < now

\* Admin.isDiscountActive
isDiscountActive(d, e) ==
    IF d = NULL \/ d = 0 THEN FALSE
    ELSE IF e = NULL THEN TRUE
    ELSE e > now

\* rank_details.is_discount_active (a NULL discount compares as unknown)
is_discount_active(d, e) == d # NULL /\ d > 0 /\ (e = NULL \/ e > now)

\* rank_details.discounted_price, in cents
discounted_price(p, d, e) ==
    IF d # NULL /\ d > 0 /\ (e = NULL \/ e > now)
    THEN Round2(p * (100 - d))
    ELSE p

(***************************************************************************)
(* WebhookService: the message and its sanitization                        *)
(* A string is a sequence of UTF-16 code units; a code unit outside ASCII  *)
(* is written "U+XXXX". An absent optional string is the empty sequence.   *)
(***************************************************************************)
\* the zero-width space
ZWSP == "U+200B"

AtEveryone == <<"@", "e", "v", "e", "r", "y", "o", "n", "e">>

AtHere == <<"@", "h", "e", "r", "e">>

\* the end index of .slice(0, 1500)
MaxFieldLength == 1500

\* the positions at which pat occurs in s
Matches(s, pat) ==
    {i \in 1..(Len(s) - Len(pat) + 1) : SubSeq(s, i, i + Len(pat) - 1) = pat}

\* String.prototype.includes
includes(s, pat) == Matches(s, pat) # {}

\* String.prototype.replace with a global pattern of literal characters:
\* the matches are replaced left to right, the replacement is not rescanned
RECURSIVE replaceAll(_, _, _)
replaceAll(s, pat, rep) ==
    LET m == Matches(s, pat)
    IN IF m = {}
       THEN s
       ELSE LET i == CHOOSE x \in m : \A y \in m : x <= y
            IN SubSeq(s, 1, i - 1) \o rep
               \o replaceAll(SubSeq(s, i + Len(pat), Len(s)), pat, rep)

\* .replace(/[<>]/g, '')
stripAngle(s) == SelectSeq(s, LAMBDA c : c \notin {"<", ">"})

\* .slice(0, n)
slice(s, n) == SubSeq(s, 1, IF Len(s) < n THEN Len(s) ELSE n)

\* (faulty variant: the mentions are neutralized before < and > are removed)
sanitizeString_StripsLast(str) ==
    IF str = <<>> THEN <<>>
    ELSE slice(stripAngle(
                 replaceAll(replaceAll(str, AtEveryone,
                                       <<"@", ZWSP>> \o Tail(AtEveryone)),
                            AtHere, <<"@", ZWSP>> \o Tail(AtHere))),
               MaxFieldLength)

\* sanitizeString
sanitizeString(str) ==
    IF str = <<>> THEN <<>>
    ELSE slice(replaceAll(replaceAll(stripAngle(str), AtEveryone,
                                     <<"@", ZWSP>> \o Tail(AtEveryone)),
                          AtHere, <<"@", ZWSP>> \o Tail(AtHere)),
               MaxFieldLength)

\* sanitizeWebhookContent: content, and title, description, the fields and
\* footer.text of every embed; username is copied as it is
sanitizeEmbed(embed) ==
    [title |-> IF embed.title # <<>> THEN sanitizeString(embed.title)
                                     ELSE embed.title,
     description |-> IF embed.description # <<>>
                     THEN sanitizeString(embed.description)
                     ELSE embed.description,
     fields |-> [i \in 1..Len(embed.fields) |->
                    [name |-> sanitizeString(embed.fields[i].name),
                     value |-> sanitizeString(embed.fields[i].value)]],
     footer |-> IF embed.footer # <<>> THEN sanitizeString(embed.footer)
                                       ELSE embed.footer]

sanitizeWebhookContent(c) ==
    [username |-> c.username,
     content |-> IF c.content # <<>> THEN sanitizeString(c.content)
                                     ELSE c.content,
     embeds |-> [i \in 1..Len(c.embeds) |-> sanitizeEmbed(c.embeds[i])]]

\* username: "Champa Store Bot"
BotName ==
    <<"C", "h", "a", "m", "p", "a", " ", "S", "t", "o", "r", "e", " ", "B",
      "o", "t">>

\* content of an order notification
OrderContent ==
    <<"U+D83C", "U+DFAE", " ", "*", "*", "N", "E", "W", " ", "R", "A", "N",
      "K", " ", "O", "R", "D", "E", "R", "!", "*", "*", " ", "U+D83C",
      "U+DFAE">>

\* title: `New ${orderData.rank} Rank Order`
TitlePrefix ==
    <<"N", "e", "w", " ">>

TitleSuffix ==
    <<" ", "R", "a", "n", "k", " ", "O", "r", "d", "e", "r">>

\* description of an order notification
OrderDescription ==
    <<"A", " ", "n", "e", "w", " ", "o", "r", "d", "e", "r", " ", "h", "a",
      "s", " ", "b", "e", "e", "n", " ", "r", "e", "c", "e", "i", "v", "e",
      "d", " ", "a", "n", "d", " ", "i", "s", " ", "a", "w", "a", "i", "t",
      "i", "n", "g", " ", "p", "r", "o", "c", "e", "s", "s", "i", "n", "g",
      ".">>

\* the names of the five fields
CustomerName ==
    <<"U+D83D", "U+DC64", " ", "C", "u", "s", "t", "o", "m", "e", "r">>

PlatformName ==
    <<"U+D83C", "U+DFAE", " ", "P", "l", "a", "t", "f", "o", "r", "m">>

RankName ==
    <<"U+2B50", " ", "R", "a", "n", "k">>

PriceName ==
    <<"U+D83D", "U+DCB0", " ", "P", "r", "i", "c", "e">>

TimeName ==
    <<"U+23F0", " ", "T", "i", "m", "e">>

\* footer.text
FooterText ==
    <<"C", "h", "a", "m", "p", "a", " ", "S", "t", "o", "r", "e", " ", "O",
      "r", "d", "e", "r", " ", "S", "y", "s", "t", "e", "m">>

\* title of the payment proof embed
ProofTitle ==
    <<"U+D83D", "U+DCB3", " ", "P", "a", "y", "m", "e", "n", "t", " ", "P",
      "r", "o", "o", "f">>

\* a value of new Date().toLocaleString('en-US', ...)
FormattedDate ==
    <<"M", "o", "n", "d", "a", "y", ",", " ", "J", "u", "n", "e", " ", "2",
      ",", " ", "2", "0", "2", "5", " ", "a", "t", " ", "1", "0", ":", "3",
      "0", " ", "A", "M">>

LowerCase ==
    <<"a", "b", "c", "d", "e", "f", "g", "h", "i", "j", "k", "l", "m", "n",
      "o", "p", "q", "r", "s", "t", "u", "v", "w", "x", "y", "z">>

UpperCase ==
    <<"A", "B", "C", "D", "E", "F", "G", "H", "I", "J", "K", "L", "M", "N",
      "O", "P", "Q", "R", "S", "T", "U", "V", "W", "X", "Y", "Z">>

\* String.prototype.toUpperCase
toUpperCase(s) ==
    [i \in 1..Len(s) |->
        IF \E k \in 1..26 : LowerCase[k] = s[i]
        THEN UpperCase[CHOOSE k \in 1..26 : LowerCase[k] = s[i]]
        ELSE s[i]]

DigitChars == <<"0", "1", "2", "3", "4", "5", "6", "7", "8", "9">>

\* the decimal digits of a natural number
RECURSIVE digits(_)
digits(n) ==
    IF n < 10 THEN <<DigitChars[n + 1]>>
    ELSE digits(n \div 10) \o <<DigitChars[(n % 10) + 1]>>

\* `${orderData.price}`: a number of cents written as the number it is
numberToString(cents) ==
    digits(cents \div 100)
    \o (IF cents % 100 = 0 THEN <<>>
        ELSE <<".", DigitChars[((cents % 100) \div 10) + 1]>>
             \o (IF cents % 10 = 0 THEN <<>>
                 ELSE <<DigitChars[(cents % 10) + 1]>>))

\* a template literal that puts the text between two backticks (U+0060)
backticks(text) == <<"U+0060">> \o text \o <<"U+0060">>

\* createOrderNotification; the second embed is added when paymentProofUrl
\* is a valid URL
createOrderNotification(od, proofOk) ==
    LET order ==
            [title |-> TitlePrefix \o od.rank \o TitleSuffix,
             description |-> OrderDescription,
             fields |->
                <<[name |-> CustomerName,
                   value |-> backticks(sanitizeString(od.username))],
                  [name |-> PlatformName,
                   value |-> backticks(sanitizeString(toUpperCase(od.platform)))],
                  [name |-> RankName,
                   value |-> backticks(sanitizeString(od.rank))],
                  [name |-> PriceName,
                   value |-> backticks(<<"$">> \o numberToString(od.price))],
                  [name |-> TimeName, value |-> backticks(FormattedDate)]>>,
             footer |-> FooterText]
        proof ==
            [title |-> ProofTitle, description |-> <<>>, fields |-> <<>>,
             footer |-> <<>>]
    IN [username |-> BotName,
        content |-> OrderContent,
        embeds |-> IF proofOk THEN <<order, proof>> ELSE <<order>>]

\* the message before any call
NoBody == [username |-> <<>>, content |-> <<>>, embeds |-> <<>>]

(***************************************************************************)
(* WebhookService: the messages a call is tried with                       *)
(***************************************************************************)
\* the number of pieces a text is put together from
MaxPieces == 3

Pieces == {<<"@">>, <<"<">>, Tail(AtEveryone), Tail(AtHere), <<"x">>}

RECURSIVE Concats(_)
Concats(n) ==
    IF n = 0 THEN {<<>>}
    ELSE LET shorter == Concats(n - 1)
         IN shorter \cup {t \o p : t \in shorter, p \in Pieces}

padding(n) == [i \in 1..n |-> "x"]

\* texts that reach over the cap, with a mention at the cap
LongTexts ==
    {padding(MaxFieldLength - k) \o t : k \in {0, 3}, t \in {AtEveryone, AtHere}}

Texts == Concats(MaxPieces) \cup LongTexts

\* a message with the text in its username and in each of its text fields
RawMessage(t) ==
    [username |-> t,
     content |-> t,
     embeds |-> <<[title |-> t, description |-> t,
                   fields |-> <<[name |-> t, value |-> t]>>,
                   footer |-> t]>>]

\* an order with the text as its username and as its rank
OrderWith(t) ==
    [username |-> t, platform |-> <<"j", "a", "v", "a">>, rank |-> t,
     price |-> 400]

Messages ==
    {RawMessage(t) : t \in Texts}
    \cup {createOrderNotification(OrderWith(t), ok) :
            t \in Texts, ok \in BOOLEAN}

\* the notification of an order of Steve_01 for VIP at 4.00
OrderNotification ==
    createOrderNotification(
        [username |-> <<"S", "t", "e", "v", "e", "_", "0", "1">>,
         platform |-> <<"j", "a", "v", "a">>,
         rank |-> <<"V", "I", "P">>,
         price |-> 400], TRUE)

(***************************************************************************)
(* WebhookService                                                          *)
(***************************************************************************)
MAX_RETRIES == 2

TIMEOUT_MS == 8000

RETRY_DELAY_MS == 1000

UrlKinds == {"unset", "invalid", "valid"}

\* (faulty variant: every configured URL is taken for a webhook URL)
isValidWebhookUrl_AnyConfigured(url) == url # "unset"

\* new URL(url) parses and the url contains discord.com/api/webhooks/
isValidWebhookUrl(url) == url = "valid"

\* (faulty variant: a 2xx response is handled like a failure)
AfterSuccess_KeepRetrying(a) == IF a = MAX_RETRIES THEN "return_false" ELSE "delay"

\* the exit of the loop body after a 2xx response
AfterSuccess(a) == "return_true"

\* (faulty variant: the last retry is never made)
AfterFailure_OffByOne(a) ==
    IF a >= MAX_RETRIES - 1 THEN "return_false" ELSE "delay"

\* (faulty variant: the failure of the last attempt is rethrown)
AfterFailure_Rethrow(a) == IF a = MAX_RETRIES THEN "throw" ELSE "delay"

\* (faulty variant: the retry delay is waited after the last attempt too)
AfterFailure_AlwaysDelays(a) == "delay"

\* the exit of the loop body after a failed attempt (non-2xx, network error,
\* abort): the last attempt returns false, every other waits and retries
AfterFailure(a) == IF a = MAX_RETRIES THEN "return_false" ELSE "delay"

\* (faulty variant: the timer of a settled attempt is left pending)
clearTimeout_Forgotten(ts, timeoutId) == ts

\* clearTimeout(timeoutId): the timer of the attempt is no longer pending
clearTimeout(ts, timeoutId) == ts \ {timeoutId}

\* the effect of an exit of the loop body on the call
Exit(kind) ==
    /\ d_pc' = IF kind = "delay" THEN "delay" ELSE "done"
    /\ result' = CASE kind = "return_true" -> "true"
                   [] kind = "return_false" -> "false"
                   [] kind = "throw" -> "threw"
                   [] OTHER -> result

\* no call has been made
IdleDispatch ==
    /\ d_pc = "idle"
    /\ attempt = 0
    /\ requests = 0
    /\ log = <<>>
    /\ timers = {}
    /\ aborted = {}
    /\ delays = 0
    /\ delivered = 0
    /\ result = "none"
    /\ body = NoBody

\* the call: the URL guard, the sanitization, entry into the loop
sendDiscordNotification ==
    /\ d_pc = "idle"
    /\ IF ~isValidWebhookUrl(webhookUrl)
       THEN /\ d_pc' = "done"
            /\ result' = "false"
            /\ body' = body
       ELSE /\ d_pc' = "loop"
            /\ result' = result
            /\ body' = sanitizeWebhookContent(content)
    /\ attempt' = 0
    /\ UNCHANGED <<webhookUrl, requests, log, timers, aborted, delays,
                   delivered, content>>
    /\ UNCHANGED <<svars, cvars, uvars, avars, xvars>>

\* top of the loop body: new AbortController, setTimeout, fetch; the
\* controller and the timer are those of this attempt
\* (a loop condition that fails falls through to the final return false)
StartAttempt ==
    /\ d_pc = "loop"
    /\ IF attempt <= MAX_RETRIES
       THEN /\ requests' = requests + 1
            /\ timers' = timers \cup {attempt}
            /\ d_pc' = "fetch"
            /\ result' = result
       ELSE /\ Exit("return_false")
            /\ UNCHANGED <<requests, timers>>
    /\ UNCHANGED <<webhookUrl, attempt, log, aborted, delays, delivered,
                   content, body>>
    /\ UNCHANGED <<svars, cvars, uvars, avars, xvars>>

\* fetch resolved with a response: clearTimeout, then response.ok decides
FetchResponse(ok) ==
    /\ d_pc = "fetch"
    /\ timers' = clearTimeout(timers, attempt)
    /\ log' = Append(log, IF ok THEN "ok" ELSE "non2xx")
    /\ IF ok
       THEN Exit(AfterSuccess(attempt))
       ELSE /\ d_pc' = "text"
            /\ result' = result
    /\ delivered' = IF ok THEN delivered + 1 ELSE delivered
    /\ UNCHANGED <<webhookUrl, attempt, requests, aborted, delays, content,
                   body>>
    /\ UNCHANGED <<svars, cvars, uvars, avars, xvars>>

\* await response.text() of a non-2xx response; a failed body read lands in
\* the inner catch, which ends the attempt the same way
ReadErrorText(readOk) ==
    /\ d_pc = "text"
    /\ Exit(AfterFailure(attempt))
    /\ UNCHANGED <<webhookUrl, attempt, requests, log, timers, aborted,
                   delays, delivered, content, body>>
    /\ UNCHANGED <<svars, cvars, uvars, avars, xvars>>

\* fetch rejected with a network error: inner catch, clearTimeout; the
\* request may or may not have reached the endpoint before the failure
FetchReject(reached) ==
    /\ d_pc = "fetch"
    /\ timers' = clearTimeout(timers, attempt)
    /\ log' = Append(log, "neterr")
    /\ delivered' = IF reached THEN delivered + 1 ELSE delivered
    /\ Exit(AfterFailure(attempt))
    /\ UNCHANGED <<webhookUrl, attempt, requests, aborted, delays, content,
                   body>>
    /\ UNCHANGED <<svars, cvars, uvars, avars, xvars>>

\* a pending timer fired: the abort() of the controller of its attempt.
\* When the fetch of that attempt is in flight it rejects with AbortError
\* (inner catch, clearTimeout); the endpoint may have processed the request
\* although the client gave up. A controller whose fetch has settled aborts
\* nothing.
TimeoutAbort(reached) ==
    /\ \E i \in timers :
          /\ aborted' = aborted \cup {i}
          /\ IF d_pc = "fetch" /\ i = attempt
             THEN /\ timers' = clearTimeout(timers \ {i}, attempt)
                  /\ log' = Append(log, "timeout")
                  /\ delivered' = IF reached THEN delivered + 1 ELSE delivered
                  /\ Exit(AfterFailure(attempt))
             ELSE /\ timers' = timers \ {i}
                  /\ UNCHANGED <<log, delivered, d_pc, result>>
    /\ UNCHANGED <<webhookUrl, attempt, requests, delays, content, body>>
    /\ UNCHANGED <<svars, cvars, uvars, avars, xvars>>

\* the retry delay elapsed: next iteration of the loop
DelayElapsed ==
    /\ d_pc = "delay"
    /\ delays' = delays + 1
    /\ attempt' = attempt + 1
    /\ d_pc' = "loop"
    /\ UNCHANGED <<webhookUrl, requests, log, timers, aborted, delivered,
                   result, content, body>>
    /\ UNCHANGED <<svars, cvars, uvars, avars, xvars>>

NextDispatch ==
    \/ sendDiscordNotification
    \/ StartAttempt
    \/ \E ok \in BOOLEAN : FetchResponse(ok)
    \/ \E readOk \in BOOLEAN : ReadErrorText(readOk)
    \/ \E reached \in BOOLEAN : FetchReject(reached)
    \/ \E reached \in BOOLEAN : TimeoutAbort(reached)
    \/ DelayElapsed


(***************************************************************************)
(* OrderModal: form validation                                             *)
(***************************************************************************)
\* strings are sequences of one-character strings
Lower == {"a","b","c","d","e","f","g","h","i","j","k","l","m",
          "n","o","p","q","r","s","t","u","v","w","x","y","z"}

Upper == {"A","B","C","D","E","F","G","H","I","J","K","L","M",
          "N","O","P","Q","R","S","T","U","V","W","X","Y","Z"}

Digit == {"0","1","2","3","4","5","6","7","8","9"}

\* space, tab and no-break space stand for the white space trim removes
WhiteSpace == {" ", "\t", "U+00A0"}

\* String.prototype.trim
RECURSIVE trimStart(_)
trimStart(s) ==
    IF s # <<>> /\ Head(s) \in WhiteSpace THEN trimStart(Tail(s)) ELSE s

RECURSIVE trimEnd(_)
trimEnd(s) ==
    IF s # <<>> /\ s[Len(s)] \in WhiteSpace
    THEN trimEnd(SubSeq(s, 1, Len(s) - 1))
    ELSE s

trim(s) == trimEnd(trimStart(s))

\* usernameRegex.test: /^[a-zA-Z0-9_]{3,16}$/
usernameRegex(s) ==
    /\ Len(s) >= 3
    /\ Len(s) <= 16
    /\ \A i \in 1..Len(s) : s[i] \in Lower \cup Upper \cup Digit \cup {"_"}

MAX_FILE_SIZE == 5 * 1024 * 1024

\* the form inputs a submission is tried with
Usernames ==
    { <<>>,
      <<" ", " ">>,
      <<"a", "b">>,
      <<"a", " ", "b", "c">>,
      <<"S", "t", "e", "v", "e", "_", "0", "1">>,
      <<" ", "a", "b", "c", " ">> }

NoFile == [present |-> FALSE, isImage |-> FALSE, size |-> 0]

Files ==
    { NoFile,
      [present |-> TRUE, isImage |-> TRUE, size |-> 1024],
      [present |-> TRUE, isImage |-> TRUE, size |-> MAX_FILE_SIZE],
      [present |-> TRUE, isImage |-> TRUE, size |-> MAX_FILE_SIZE + 1],
      [present |-> TRUE, isImage |-> FALSE, size |-> 1024] }

\* the catalogue the modal loaded from table ranks (now = 1): VIP at 5.00
\* with 20% off until tomorrow, LEGEND at 20.00 with 25% off that expired
\* yesterday, MVP at 9.99 without discount
Catalogue ==
    [VIP |-> [name |-> "VIP", price |-> 500, discount |-> 20,
              discount_expires_at |-> 2],
     LEGEND |-> [name |-> "LEGEND", price |-> 2000, discount |-> 25,
                 discount_expires_at |-> 0],
     MVP |-> [name |-> "MVP", price |-> 999, discount |-> NULL,
              discount_expires_at |-> NULL]]

\* selectedRank: "" while nothing is selected
RankChoices == {""} \cup DOMAIN Catalogue

\* every combination of file, username and rank on the default platform,
\* and the Bedrock platform with each rank
Forms ==
    [paymentProofFile : Files, username : Usernames,
     platform : {"java"}, selectedRank : RankChoices]
    \cup
    [paymentProofFile : {[present |-> TRUE, isImage |-> TRUE, size |-> 1024]},
     username : {<<"S", "t", "e", "v", "e", "_", "0", "1">>},
     platform : {"bedrock"}, selectedRank : RankChoices]

\* selectedRankDetails / selectedRankOption: ranks.find(r => r.name === selectedRank)
HasRank(f) == f.selectedRank \in DOMAIN ranks

selectedRankDetails(f) == ranks[f.selectedRank]

\* (faulty variant: the file size is not checked)
ValidationError_NoSizeCheck(f) ==
    IF ~f.paymentProofFile.present THEN "Please upload payment proof"
    ELSE IF trim(f.username) = <<>> THEN "Please enter your username"
    ELSE IF ~usernameRegex(trim(f.username)) THEN "Username must be 3-16 characters"
    ELSE IF ~HasRank(f) THEN "Please select a valid rank"
    ELSE IF ~f.paymentProofFile.isImage THEN "Please upload a valid image file"
    ELSE ""

\* the checks at the top of handleSubmit, in order: the message of the first
\* one that throws, "" when all pass
ValidationError(f) ==
    IF ~f.paymentProofFile.present THEN "Please upload payment proof"
    ELSE IF trim(f.username) = <<>> THEN "Please enter your username"
    ELSE IF ~usernameRegex(trim(f.username)) THEN "Username must be 3-16 characters"
    ELSE IF ~HasRank(f) THEN "Please select a valid rank"
    ELSE IF ~f.paymentProofFile.isImage THEN "Please upload a valid image file"
    ELSE IF f.paymentProofFile.size > MAX_FILE_SIZE THEN "Image size should be less than 5MB"
    ELSE ""

(***************************************************************************)
(* OrderModal: handleSubmit                                                *)
(***************************************************************************)
\* the number of submissions made from one modal
MaxSubmits == 2

Components == {"OrderModal.tsx", "part_004"}

NoId == [kind |-> "undefined", n |-> 0]

\* NULL in a text column
NullText == "<NULL>"

NoOrder ==
    [id |-> NoId, username |-> <<>>, platform |-> "", rank |-> "",
     price |-> 0, payment_proof |-> 0, status |-> ""]

NoFx ==
    [uploads |-> 0, queries |-> 0, inserts |-> 0, dispatches |-> 0,
     upload |-> "none", check |-> "none", insert |-> "none",
     notify |-> "none"]

\* orderData.price, in hundredths of a cent: calculateRankPrice in
\* OrderModal.tsx, selectedRankOption.price in part_004
FinalPrice(rank) ==
    IF component = "OrderModal.tsx"
    THEN calculateRankPrice(rank)
    ELSE rank.price * 100

\* the messages for which the outer catch offers demo mode
OffersDemo(msg) ==
    msg \in {"Table check failed", "Failed to create order"}

\* (faulty variant: an error that does not offer demo mode switches it off)
Fail_LeavesDemo(msg) ==
    /\ toast' = "error"
    /\ errorMessage' = msg
    /\ demoMode' = OffersDemo(msg)
    /\ s_pc' = "idle"

\* the outer catch and finally of handleSubmit
Fail(msg) ==
    /\ toast' = "error"
    /\ errorMessage' = msg
    /\ demoMode' = IF OffersDemo(msg) THEN TRUE ELSE demoMode
    /\ s_pc' = "idle"

\* the tail of the try block: completed order, success toast, receipt
Succeed(od, dm) ==
    /\ completedOrder' = od
    /\ toast' = "success"
    /\ errorMessage' = ""
    /\ isReceiptOpen' = TRUE
    /\ completedAt' = submitNo
    /\ demoMode' = dm
    /\ s_pc' = "idle"

\* sendToDiscord: whether WebhookService is called at all
CallsWebhookService ==
    component = "OrderModal.tsx" \/ webhookUrl # "unset"

\* (faulty variant: the dispatch is awaited without try/catch and its
\* failure is treated as a failure of the submission)
AfterNotify_Propagates(o) == IF o = "true" THEN "continue" ELSE "throw"

\* the try/catch around sendToDiscord and the one inside it: whatever the
\* dispatch does, the submission continues
AfterNotify(o) == "continue"

\* the state of the modal as mounted, the backend empty
IdleModal ==
    /\ ranks = Catalogue
    /\ demoMode = FALSE
    /\ completedOrder = NoOrder
    /\ isReceiptOpen = FALSE
    /\ s_pc = "idle"
    /\ form = [paymentProofFile |-> NoFile, username |-> <<>>,
               platform |-> "java", selectedRank |-> ""]
    /\ demo = FALSE
    /\ orderData = NoOrder
    /\ publicUrl = "none"
    /\ toast = "none"
    /\ errorMessage = ""
    /\ fx = NoFx
    /\ submitNo = 0
    /\ completedAt = 0

\* the modal is mounted and nothing has been uploaded or ordered
MountedModal ==
    /\ IdleModal
    /\ storage = {}
    /\ orders = <<>>

\* the user submits the form with inputs f: validation, then the upload
handleSubmit(f) ==
    /\ s_pc = "idle"
    /\ submitNo < MaxSubmits
    /\ submitNo' = submitNo + 1
    /\ form' = f
    /\ demo' = demoMode
    /\ orderData' = NoOrder
    /\ publicUrl' = "none"
    /\ IF ValidationError(f) # ""
       THEN /\ Fail(ValidationError(f))
            /\ fx' = NoFx
       ELSE /\ s_pc' = "upload"
            /\ fx' = [NoFx EXCEPT !.uploads = 1]
            /\ toast' = "none"
            /\ errorMessage' = ""
            /\ demoMode' = demoMode
    /\ UNCHANGED <<component, ranks, completedOrder, isReceiptOpen,
                   completedAt, storage, orders>>
    /\ UNCHANGED <<dvars, cvars, uvars, avars, xvars>>

\* storage.upload settled; then orderData is built and the table check sent
UploadSettles(o) ==
    /\ s_pc = "upload"
    /\ storage' = IF o = "ok" THEN storage \cup {submitNo} ELSE storage
    /\ IF o = "ok" \/ demo
       THEN /\ publicUrl' = IF o = "ok" THEN "storage" ELSE "rank_image"
            /\ orderData' =
                 [id |-> IF demo THEN [kind |-> "fake", n |-> 0] ELSE NoId,
                  username |-> trim(form.username),
                  platform |-> form.platform,
                  rank |-> form.selectedRank,
                  price |-> FinalPrice(selectedRankDetails(form)),
                  payment_proof |-> IF o = "ok" THEN submitNo ELSE 0,
                  status |-> "pending"]
            /\ fx' = [fx EXCEPT !.upload = o, !.queries = 1]
            /\ s_pc' = "check"
            /\ UNCHANGED <<toast, errorMessage, demoMode>>
       ELSE /\ Fail(CASE o = "error" -> "Failed to upload payment proof"
                      [] o = "nodata" -> "Upload failed. No data returned."
                      [] OTHER -> "network error")
            /\ fx' = [fx EXCEPT !.upload = o]
            /\ UNCHANGED <<publicUrl, orderData>>
    /\ UNCHANGED <<component, ranks, completedOrder, isReceiptOpen, form,
                   demo, submitNo, completedAt, orders>>
    /\ UNCHANGED <<dvars, cvars, uvars, avars, xvars>>

\* (faulty variant: the insert is sent in demo mode too)
CheckSettles_InsertsInDemo(o) ==
    /\ s_pc = "check"
    /\ IF o = "ok"
       THEN /\ fx' = [fx EXCEPT !.check = o, !.inserts = 1]
            /\ s_pc' = "insert"
            /\ UNCHANGED <<orderData, toast, errorMessage, demoMode,
                           completedOrder, isReceiptOpen, completedAt>>
       ELSE IF demo
       THEN /\ fx' = [fx EXCEPT !.check = o]
            /\ Succeed(orderData, TRUE)
            /\ UNCHANGED orderData
       ELSE /\ fx' = [fx EXCEPT !.check = o]
            /\ Fail(IF o = "error" THEN "Table check failed"
                                   ELSE "network error")
            /\ UNCHANGED <<orderData, completedOrder, isReceiptOpen,
                           completedAt>>
    /\ UNCHANGED <<component, ranks, form, demo, publicUrl, submitNo,
                   storage, orders>>
    /\ UNCHANGED <<dvars, cvars, uvars, avars, xvars>>

\* (faulty variant: a failed table check removes the uploaded file again)
CheckSettles_RollsBack(o) ==
    /\ s_pc = "check"
    /\ IF demo
       THEN /\ fx' = [fx EXCEPT !.check = o]
            /\ Succeed(orderData, TRUE)
            /\ UNCHANGED <<orderData, storage>>
       ELSE IF o = "ok"
       THEN /\ fx' = [fx EXCEPT !.check = o, !.inserts = 1]
            /\ s_pc' = "insert"
            /\ UNCHANGED <<orderData, toast, errorMessage, demoMode,
                           completedOrder, isReceiptOpen, completedAt,
                           storage>>
       ELSE /\ fx' = [fx EXCEPT !.check = o]
            /\ Fail(IF o = "error" THEN "Table check failed"
                                   ELSE "network error")
            /\ storage' = storage \ {submitNo}
            /\ UNCHANGED <<orderData, completedOrder, isReceiptOpen,
                           completedAt>>
    /\ UNCHANGED <<component, ranks, form, demo, publicUrl, submitNo,
                   orders>>
    /\ UNCHANGED <<dvars, cvars, uvars, avars, xvars>>

\* the table check settled. In demo mode nothing is inserted and nothing
\* is dispatched; otherwise an error ends the submission and a success
\* sends the insert
CheckSettles(o) ==
    /\ s_pc = "check"
    /\ IF demo
       THEN /\ fx' = [fx EXCEPT !.check = o]
            /\ Succeed(orderData, TRUE)
            /\ UNCHANGED orderData
       ELSE IF o = "ok"
       THEN /\ fx' = [fx EXCEPT !.check = o, !.inserts = 1]
            /\ s_pc' = "insert"
            /\ UNCHANGED <<orderData, toast, errorMessage, demoMode,
                           completedOrder, isReceiptOpen, completedAt>>
       ELSE /\ fx' = [fx EXCEPT !.check = o]
            /\ Fail(IF o = "error" THEN "Table check failed"
                                   ELSE "network error")
            /\ UNCHANGED <<orderData, completedOrder, isReceiptOpen,
                           completedAt>>
    /\ UNCHANGED <<component, ranks, form, demo, publicUrl, submitNo,
                   storage, orders>>
    /\ UNCHANGED <<dvars, cvars, uvars, avars, xvars>>

\* what the handler does with an insert that returned an error: the branch
\* taken depends on the demoMode the handler captured
OnInsertError(d) == IF ~d THEN "enable_demo" ELSE "throw"

\* the row the backend stores: orders.price is DECIMAL(10, 2), the id is
\* generated
InsertedRow(od) ==
    [id |-> [kind |-> "db", n |-> Len(orders) + 1],
     username |-> od.username, platform |-> od.platform, rank |-> od.rank,
     price |-> Round2(od.price), payment_proof |-> od.payment_proof,
     status |-> od.status,
     notes |-> NullText, processed_at |-> NULL, processed_by |-> NULL]

\* the insert settled (it is only sent outside demo mode); then the order
\* id is taken from the result and the notification is dispatched
InsertSettles(o) ==
    /\ s_pc = "insert"
    /\ IF o = "throw" \/ (o = "error" /\ OnInsertError(demo) = "throw")
       THEN /\ fx' = [fx EXCEPT !.insert = o]
            /\ Fail(IF o = "error" THEN "Failed to create order"
                                   ELSE "network error")
            /\ UNCHANGED <<orderData, orders, completedOrder, isReceiptOpen,
                           completedAt>>
       ELSE LET row == InsertedRow(orderData)
                od == IF o = "ok" THEN [orderData EXCEPT !.id = row.id]
                                  ELSE orderData
                dm == IF o = "error" THEN TRUE ELSE demoMode
            IN /\ orders' = IF o = "ok" THEN Append(orders, row) ELSE orders
               /\ orderData' = od
               /\ IF demo
                  THEN /\ fx' = [fx EXCEPT !.insert = o]
                       /\ Succeed(od, dm)
                  ELSE IF CallsWebhookService
                  THEN /\ fx' = [fx EXCEPT !.insert = o, !.dispatches = 1]
                       /\ s_pc' = "notify"
                       /\ demoMode' = dm
                       /\ UNCHANGED <<toast, errorMessage, completedOrder,
                                      isReceiptOpen, completedAt>>
                  ELSE /\ fx' = [fx EXCEPT !.insert = o, !.notify = "skipped"]
                       /\ Succeed(od, dm)
    /\ UNCHANGED <<component, ranks, form, demo, publicUrl, submitNo,
                   storage>>
    /\ UNCHANGED <<dvars, cvars, uvars, avars, xvars>>

\* WebhookService.sendDiscordNotification settled: it returned true or
\* false, or it threw
NotifySettles(o) ==
    /\ s_pc = "notify"
    /\ o = "true" => isValidWebhookUrl(webhookUrl)
    /\ fx' = [fx EXCEPT !.notify = o]
    /\ IF AfterNotify(o) = "continue"
       THEN Succeed(orderData, demoMode)
       ELSE /\ Fail("Discord notification failed")
            /\ UNCHANGED <<completedOrder, isReceiptOpen, completedAt>>
    /\ UNCHANGED <<component, ranks, form, demo, orderData, publicUrl,
                   submitNo, storage, orders>>
    /\ UNCHANGED <<dvars, cvars, uvars, avars, xvars>>

UploadOutcomes == {"ok", "error", "nodata", "throw"}

QueryOutcomes == {"ok", "error", "throw"}

NotifyOutcomes == {"true", "false", "throw"}

NextSubmit ==
    \/ \E f \in Forms : handleSubmit(f)
    \/ \E o \in UploadOutcomes : UploadSettles(o)
    \/ \E o \in QueryOutcomes : CheckSettles(o)
    \/ \E o \in QueryOutcomes : InsertSettles(o)
    \/ \E o \in NotifyOutcomes : NotifySettles(o)

(***************************************************************************)
(* The discount functions applied to the ranks the backend can hold        *)
(***************************************************************************)
\* ranks.discount: CHECK (discount >= 0 AND discount <= 100)
MAX_DISCOUNT == 100

\* prices of 0.00 .. 0.12 are drawn, and the catalogue prices
MaxPriceCents == 12

\* the clock runs over 1 .. MaxTime, expiries over 0 .. MaxTime + 1
MaxTime == 2

Prices == (0..MaxPriceCents) \cup {499, 500, 2000}

Discounts == {NULL} \cup (0..MAX_DISCOUNT)

Expiries == {NULL} \cup (0..(MaxTime + 1))

NoCalc ==
    [isDiscountActive |-> FALSE, getDiscountedPrice |-> 0,
     is_discount_active |-> FALSE, discounted_price |-> 0,
     calculateRankPrice |-> 0, renderRankPrice |-> 0,
     storeGetDiscountedPrice |-> 0]

\* today is day 1 and no function has been applied
IdleDiscount ==
    /\ now = 1
    /\ c_pc = {}
    /\ price = 0
    /\ discount = NULL
    /\ expiry = NULL
    /\ calc = NoCalc

\* the rank as the clients read it from table ranks
Rank ==
    [name |-> "VIP", price |-> price, discount |-> discount,
     discount_expires_at |-> expiry]

\* Admin.loadRanks: is_discount_active of each rank; the admin page shows
\* getDiscountedPrice(rank.price, rank.discount)
loadRanks ==
    /\ "admin" \notin c_pc
    /\ c_pc' = c_pc \cup {"admin"}
    /\ calc' = [calc EXCEPT
                  !.isDiscountActive = isDiscountActive(discount, expiry),
                  !.getDiscountedPrice = getDiscountedPrice(price, discount)]
    /\ UNCHANGED <<now, price, discount, expiry>>
    /\ UNCHANGED <<dvars, svars, uvars, avars, xvars>>

\* SELECT ... FROM rank_details
rank_details ==
    /\ "view" \notin c_pc
    /\ c_pc' = c_pc \cup {"view"}
    /\ calc' = [calc EXCEPT
                  !.is_discount_active = is_discount_active(discount, expiry),
                  !.discounted_price = discounted_price(price, discount, expiry)]
    /\ UNCHANGED <<now, price, discount, expiry>>
    /\ UNCHANGED <<dvars, svars, uvars, avars, xvars>>

\* the order modal renders the rank: the price it charges and the amount
\* it shows (renderRankPrice in OrderModal.tsx, getDiscountedPrice in
\* part_004)
renderRank ==
    /\ "store" \notin c_pc
    /\ c_pc' = c_pc \cup {"store"}
    /\ calc' = [calc EXCEPT
                  !.calculateRankPrice = calculateRankPrice(Rank),
                  !.renderRankPrice = renderRankPrice(Rank),
                  !.storeGetDiscountedPrice = getDiscountedPrice(price, discount)]
    /\ UNCHANGED <<now, price, discount, expiry>>
    /\ UNCHANGED <<dvars, svars, uvars, avars, xvars>>

NextDiscount ==
    \/ loadRanks
    \/ rank_details
    \/ renderRank

(***************************************************************************)
(* OrderModal: the username field of the order form                        *)
(***************************************************************************)
\* the longest value the field is tried with
MaxNameLen == 17

\* characters a value is made of: allowed ones and others
GoodChars == {"a", "Z", "7", "_"}

BadChars == {" ", "-", "U+00E9", "\t"}

Fill(n, c) == [i \in 1..n |-> c]

\* the values: a run of one allowed character with one position replaced,
\* with or without a space in front and behind; and the empty value
Entries ==
    {<<>>} \cup
    UNION { { l \o [Fill(n, c) EXCEPT ![k] = x] \o r :
                c \in {"a", "7"}, k \in {1, (n + 1) \div 2, n},
                x \in GoodChars \cup BadChars,
                l \in {<<>>, <<" ">>}, r \in {<<>>, <<" ">>} } :
            n \in 1..MaxNameLen }

\* (faulty variant: an input without the pattern attribute)
patternMismatch_NoPattern(v) == FALSE

\* pattern="[a-zA-Z0-9_]{3,16}": the whole value has to match; an empty
\* value never mismatches
patternMismatch(v) ==
    /\ v # <<>>
    /\ ~(/\ Len(v) >= 3
         /\ Len(v) <= 16
         /\ \A i \in 1..Len(v) : v[i] \in Lower \cup Upper \cup Digit \cup {"_"})

\* required
valueMissing(v) == v = <<>>

\* nothing is being submitted; the field holds the value the user entered
\* (maxLength={16} limits what can be typed, not what the field can hold)
IdleUsername ==
    /\ u_pc = "editing"
    /\ u_name = <<>>

\* the submit button is pressed: the form is validated by its constraints
\* and the submit event (onSubmit={handleSubmit}) fires only when it is valid
checkValidity ==
    /\ u_pc = "editing"
    /\ u_pc' = IF valueMissing(u_value) \/ patternMismatch(u_value)
               THEN "blocked" ELSE "submit"
    /\ UNCHANGED <<u_value, u_name>>
    /\ UNCHANGED <<dvars, svars, cvars, avars, xvars>>

\* handleSubmit: the username checks, and the username of orderData
validateUsername ==
    /\ u_pc = "submit"
    /\ IF trim(u_value) = <<>> \/ ~usernameRegex(trim(u_value))
       THEN /\ u_pc' = "rejected"
            /\ u_name' = u_name
       ELSE /\ u_pc' = "accepted"
            /\ u_name' = trim(u_value)
    /\ UNCHANGED u_value
    /\ UNCHANGED <<dvars, svars, cvars, avars, xvars>>

NextUsername ==
    \/ checkValidity
    \/ validateUsername

(***************************************************************************)
(* Staff sessions: the Admin page and OrderManager against the backend     *)
(***************************************************************************)
\* the number of backend calls the sessions make
MaxCalls == 2

Sessions == {1, 2}

Pages == {"Admin.tsx", "OrderManager"}

\* status TEXT NOT NULL CHECK (status IN ('pending', 'completed', 'rejected'))
Statuses == {"pending", "completed", "rejected"}

\* the text typed into the notes of an order
NoteTexts == {"paid"}

\* the columns of table orders no update of the clients names
OrderFacts(row) ==
    <<row.id, row.username, row.platform, row.rank, row.price,
      row.payment_proof>>

\* viewingOrder = null
NoRow ==
    [id |-> NoId, username |-> <<>>, platform |-> "", rank |-> "",
     price |-> 0, payment_proof |-> 0, status |-> "",
     notes |-> NullText, processed_at |-> NULL, processed_by |-> NULL]

\* table orders after two checkouts: Steve orders VIP at 4.00, Alex_2 on
\* Bedrock orders MVP at 9.99; both orders are pending
PlacedOrders ==
    <<[id |-> [kind |-> "db", n |-> 1],
       username |-> <<"S", "t", "e", "v", "e">>, platform |-> "java",
       rank |-> "VIP", price |-> 400, payment_proof |-> 1,
       status |-> "pending",
       notes |-> NullText, processed_at |-> NULL, processed_by |-> NULL],
      [id |-> [kind |-> "db", n |-> 2],
       username |-> <<"A", "l", "e", "x", "_", "2">>, platform |-> "bedrock",
       rank |-> "MVP", price |-> 999, payment_proof |-> 2,
       status |-> "pending",
       notes |-> NullText, processed_at |-> NULL, processed_by |-> NULL]>>

\* table ranks as the staff finds it: VIP and MVP of the catalogue
ListedRanks == [r \in {"VIP", "MVP"} |-> Catalogue[r]]

\* ranks not loaded yet
NoRanks == [r \in {} |-> 0]

\* PostgREST update: the named columns of the row are set, the others kept
applyPatch(row, patch) ==
    [f \in DOMAIN row |-> IF f \in DOMAIN patch THEN patch[f] ELSE row[f]]

\* Admin.tsx: .update({ status: newStatus })
AdminStatusPatch(newStatus) == [status |-> newStatus]

\* OrderManager: .update({ status, processed_at, processed_by })
ManagerStatusPatch(status, at, userId) ==
    [status |-> status, processed_at |-> at, processed_by |-> userId]

\* (faulty variant: the notes update rewrites the price as well)
NotesPatch_ResetsPrice(notes) == [notes |-> notes, price |-> 0]

\* OrderManager: .update({ notes })
NotesPatch(notes) == [notes |-> notes]

\* (faulty variant: completed and rejected are terminal on the Admin page)
AdminButtons_Terminal(status) ==
    IF status = "pending" THEN {"completed", "rejected"} ELSE {}

\* Admin.tsx: the Complete, Reject and Pending buttons of an order row; each
\* is rendered unless the order already has that status
AdminButtons(status) == Statuses \ {status}

\* OrderManager: Approve and Reject are rendered for a pending order only
ManagerButtons(status) ==
    IF status = "pending" THEN {"completed", "rejected"} ELSE {}

\* (faulty variant: an update is refused once the row has been processed,
\* so that the first write wins)
acceptsOrderUpdate_FirstWins(row, patch) ==
    /\ "status" \in DOMAIN patch => patch.status \in Statuses
    /\ row.status = "pending"

\* what the backend requires of an update of an order: the CHECK constraint
\* on status; nothing about the values the row has now
acceptsOrderUpdate(row, patch) ==
    "status" \in DOMAIN patch => patch.status \in Statuses

\* (faulty variant: the range check has no upper limit)
discountInRange_NoUpperLimit(v) == ~(v < 0)

\* apply_bulk_discount: the range check
discountInRange(v) == ~(v < 0 \/ v > 100)

\* the sessions before any call: nothing loaded, nothing shown
IdleStaff ==
    /\ a_orders = [s \in Sessions |-> <<>>]
    /\ a_viewing = [s \in Sessions |-> NoRow]
    /\ a_ranks = [s \in Sessions |-> NoRanks]
    /\ a_bulk = [s \in Sessions |-> [discount |-> 0, expiry |-> NULL]]
    /\ a_toast = [s \in Sessions |-> "none"]
    /\ a_calls = <<>>
    /\ a_applied = <<>>

\* the sessions once their pages have loaded the orders and the ranks
StaffAtWork ==
    /\ a_orders = [s \in Sessions |-> orders]
    /\ a_viewing = [s \in Sessions |-> NoRow]
    /\ a_ranks = [s \in Sessions |->
                    IF a_page[s] = "Admin.tsx" THEN rankTable ELSE NoRanks]
    /\ a_bulk = [s \in Sessions |-> [discount |-> 0, expiry |-> NULL]]
    /\ a_toast = [s \in Sessions |-> "none"]
    /\ a_calls = <<>>
    /\ a_applied = <<>>

\* a backend call as it leaves the session: orders0 and viewing0 are the
\* orders and viewingOrder the handler closed over
Call(s, op, order, rank, patch, orders0, viewing0) ==
    [s |-> s, page |-> a_page[s], op |-> op, order |-> order, rank |-> rank,
     patch |-> patch, orders0 |-> orders0, viewing0 |-> viewing0,
     stage |-> "sent", outcome |-> "none", count |-> 0]

\* orders.map(order => order.id === id ? { ...order, ...changes } : order)
mapOrders(list, id, changes) ==
    [k \in 1..Len(list) |->
        IF list[k].id = id THEN applyPatch(list[k], changes) ELSE list[k]]

\* the time a handler reads while it works on call n: when it builds the
\* update and, later, when it updates its local state
RequestTime(n) == 2 * n - 1

LocalTime(n) == 2 * n

\* Admin.tsx loadOrders: select * from orders
loadOrders(s, ok) ==
    /\ a_page[s] = "Admin.tsx"
    /\ a_orders' = [a_orders EXCEPT ![s] = IF ok THEN orders ELSE @]
    /\ a_toast' = [a_toast EXCEPT ![s] = IF ok THEN @ ELSE "error"]
    /\ UNCHANGED <<orders, rankTable, a_page, a_viewing, a_ranks, a_bulk,
                   a_calls, a_applied>>
    /\ UNCHANGED <<dvars, storefront, cvars, uvars, xvars>>

\* Admin.tsx updateOrderStatus, up to the await: one of the buttons of an
\* order row is pressed
updateOrderStatus(s, i, newStatus) ==
    /\ a_page[s] = "Admin.tsx"
    /\ Len(a_calls) < MaxCalls
    /\ i \in 1..Len(a_orders[s])
    /\ newStatus \in AdminButtons(a_orders[s][i].status)
    /\ a_calls' = Append(a_calls,
                         Call(s, "status", a_orders[s][i].id.n, "",
                              AdminStatusPatch(newStatus), <<>>, NoRow))
    /\ UNCHANGED <<orders, rankTable, a_page, a_orders, a_viewing, a_ranks,
                   a_bulk, a_toast, a_applied>>
    /\ UNCHANGED <<dvars, storefront, cvars, uvars, xvars>>

\* OrderManager fetchOrders (status filter 'all')
fetchOrders(s, ok) ==
    /\ a_page[s] = "OrderManager"
    /\ a_orders' = [a_orders EXCEPT ![s] = IF ok THEN orders ELSE @]
    /\ a_toast' = [a_toast EXCEPT ![s] = IF ok THEN "none" ELSE "error"]
    /\ UNCHANGED <<orders, rankTable, a_page, a_viewing, a_ranks, a_bulk,
                   a_calls, a_applied>>
    /\ UNCHANGED <<dvars, storefront, cvars, uvars, xvars>>

\* OrderManager handleViewOrder
handleViewOrder(s, i) ==
    /\ a_page[s] = "OrderManager"
    /\ i \in 1..Len(a_orders[s])
    /\ a_viewing' = [a_viewing EXCEPT ![s] = a_orders[s][i]]
    /\ UNCHANGED <<orders, rankTable, a_page, a_orders, a_ranks, a_bulk,
                   a_toast, a_calls, a_applied>>
    /\ UNCHANGED <<dvars, storefront, cvars, uvars, xvars>>

\* OrderManager handleCloseOrderView
handleCloseOrderView(s) ==
    /\ a_page[s] = "OrderManager"
    /\ a_viewing[s] # NoRow
    /\ a_viewing' = [a_viewing EXCEPT ![s] = NoRow]
    /\ UNCHANGED <<orders, rankTable, a_page, a_orders, a_ranks, a_bulk,
                   a_toast, a_calls, a_applied>>
    /\ UNCHANGED <<dvars, storefront, cvars, uvars, xvars>>

\* OrderManager: onChange of the notes textarea of the order viewed
editNotes(s, text) ==
    /\ a_page[s] = "OrderManager"
    /\ a_viewing[s] # NoRow
    /\ a_viewing' = [a_viewing EXCEPT ![s].notes = text]
    /\ UNCHANGED <<orders, rankTable, a_page, a_orders, a_ranks, a_bulk,
                   a_toast, a_calls, a_applied>>
    /\ UNCHANGED <<dvars, storefront, cvars, uvars, xvars>>

\* OrderManager handleUpdateStatus, up to the await of the update: Approve
\* or Reject of a pending row of the list, or of the pending order viewed
\* (the button of the details view closes the view as well)
handleUpdateStatus(s, i, status, inView) ==
    /\ a_page[s] = "OrderManager"
    /\ Len(a_calls) < MaxCalls
    /\ IF inView
       THEN /\ a_viewing[s] # NoRow
            /\ a_viewing[s].id.n = i
            /\ status \in ManagerButtons(a_viewing[s].status)
            /\ a_viewing' = [a_viewing EXCEPT ![s] = NoRow]
       ELSE /\ i \in 1..Len(a_orders[s])
            /\ status \in ManagerButtons(a_orders[s][i].status)
            /\ a_viewing' = a_viewing
    /\ a_calls' = Append(a_calls,
                         Call(s, "status", i, "",
                              ManagerStatusPatch(status,
                                  RequestTime(Len(a_calls) + 1), s),
                              a_orders[s], a_viewing[s]))
    /\ a_toast' = [a_toast EXCEPT ![s] = "none"]
    /\ UNCHANGED <<orders, rankTable, a_page, a_orders, a_ranks, a_bulk,
                   a_applied>>
    /\ UNCHANGED <<dvars, storefront, cvars, uvars, xvars>>

\* OrderManager handleAddNotes, up to the await: Save Notes of the order
\* viewed
handleAddNotes(s) ==
    /\ a_page[s] = "OrderManager"
    /\ Len(a_calls) < MaxCalls
    /\ a_viewing[s] # NoRow
    /\ a_calls' = Append(a_calls,
                         Call(s, "notes", a_viewing[s].id.n, "",
                              NotesPatch(IF a_viewing[s].notes = NullText
                                         THEN "" ELSE a_viewing[s].notes),
                              a_orders[s], a_viewing[s]))
    /\ a_toast' = [a_toast EXCEPT ![s] = "none"]
    /\ UNCHANGED <<orders, rankTable, a_page, a_orders, a_viewing, a_ranks,
                   a_bulk, a_applied>>
    /\ UNCHANGED <<dvars, storefront, cvars, uvars, xvars>>

\* the edits made to a rank on the Admin page before Save is pressed
RankEdits == {[price |-> 600], [discount |-> 50]}

\* the updates the Save button of a rank row passes to handleUpdateRank:
\* the fields of the rank as the session shows them, edited or not
SaveRank(local, edit) ==
    applyPatch([price |-> local.price, discount |-> local.discount], edit)

\* the numbers typed into the bulk discount input, and the values the
\* stored procedure is called with directly
TypedDiscounts == {-5, 50, 150}

RpcDiscounts == {-1, 0, 100, 101}

\* Math.min(Math.max(0, parseInt(e.target.value) || 0), 100)
clampDiscount(typed) ==
    IF typed < 0 THEN 0 ELSE IF typed > 100 THEN 100 ELSE typed

\* apply_bulk_discount: raises when the value is out of range, otherwise
\* sets discount and discount_expires_at of every rank and returns the
\* number of rows updated
apply_bulk_discount(table, discount_value, expires_at) ==
    IF ~discountInRange(discount_value)
    THEN [raised |-> TRUE, table |-> table, count |-> 0]
    ELSE [raised |-> FALSE,
          table |-> [r \in DOMAIN table |->
                        [table[r] EXCEPT !.discount = discount_value,
                                         !.discount_expires_at = expires_at]],
          count |-> Cardinality(DOMAIN table)]

\* the wrapper the clients call
rpc_apply_bulk_discount(table, discount_value, expires_at) ==
    apply_bulk_discount(table, discount_value, expires_at)

\* Admin.tsx loadRanks: select * from ranks
loadRanksFor(s) ==
    /\ a_page[s] = "Admin.tsx"
    /\ a_ranks' = [a_ranks EXCEPT ![s] = rankTable]
    /\ UNCHANGED <<orders, rankTable, a_page, a_orders, a_viewing, a_bulk,
                   a_toast, a_calls, a_applied>>
    /\ UNCHANGED <<dvars, storefront, cvars, uvars, xvars>>

\* Admin.tsx handleUpdateRank, up to the await of the update: Save of a
\* rank row after an edit
handleUpdateRank(s, id, edit) ==
    /\ a_page[s] = "Admin.tsx"
    /\ Len(a_calls) < MaxCalls
    /\ id \in DOMAIN a_ranks[s]
    /\ a_calls' = Append(a_calls,
                         Call(s, "rank", 0, id, SaveRank(a_ranks[s][id], edit),
                              <<>>, NoRow))
    /\ UNCHANGED <<orders, rankTable, a_page, a_orders, a_viewing, a_ranks,
                   a_bulk, a_toast, a_applied>>
    /\ UNCHANGED <<dvars, storefront, cvars, uvars, xvars>>

\* Admin.tsx: onChange of the bulk discount input
setBulkDiscount(s, typed) ==
    /\ a_page[s] = "Admin.tsx"
    /\ a_bulk' = [a_bulk EXCEPT ![s].discount = clampDiscount(typed)]
    /\ UNCHANGED <<orders, rankTable, a_page, a_orders, a_viewing, a_ranks,
                   a_toast, a_calls, a_applied>>
    /\ UNCHANGED <<dvars, storefront, cvars, uvars, xvars>>

\* Admin.tsx: onChange of the expiry input, and its Clear button
setBulkDiscountExpiry(s, e) ==
    /\ a_page[s] = "Admin.tsx"
    /\ a_bulk' = [a_bulk EXCEPT ![s].expiry = e]
    /\ UNCHANGED <<orders, rankTable, a_page, a_orders, a_viewing, a_ranks,
                   a_toast, a_calls, a_applied>>
    /\ UNCHANGED <<dvars, storefront, cvars, uvars, xvars>>

\* Admin.tsx applyDiscountToAllRanks, up to the await of the rpc
applyDiscountToAllRanks(s) ==
    /\ a_page[s] = "Admin.tsx"
    /\ Len(a_calls) < MaxCalls
    /\ IF a_bulk[s].discount < 0 \/ a_bulk[s].discount > 100
       THEN /\ a_toast' = [a_toast EXCEPT ![s] = "error"]
            /\ a_calls' = a_calls
       ELSE /\ a_calls' = Append(a_calls,
                                 Call(s, "bulk", 0, "",
                                      [discount |-> a_bulk[s].discount,
                                       discount_expires_at |-> a_bulk[s].expiry],
                                      <<>>, NoRow))
            /\ a_toast' = a_toast
    /\ UNCHANGED <<orders, rankTable, a_page, a_orders, a_viewing, a_ranks,
                   a_bulk, a_applied>>
    /\ UNCHANGED <<dvars, storefront, cvars, uvars, xvars>>

\* an authenticated client calls rpc_apply_bulk_discount itself
CallRpc(v, e) ==
    /\ Len(a_calls) < MaxCalls
    /\ a_calls' = Append(a_calls,
                         [s |-> 0, page |-> "api", op |-> "bulk", order |-> 0,
                          rank |-> "",
                          patch |-> [discount |-> v, discount_expires_at |-> e],
                          orders0 |-> <<>>, viewing0 |-> NoRow,
                          stage |-> "sent", outcome |-> "none", count |-> 0])
    /\ UNCHANGED <<orders, rankTable, a_page, a_orders, a_viewing, a_ranks,
                   a_bulk, a_toast, a_applied>>
    /\ UNCHANGED <<dvars, storefront, cvars, uvars, xvars>>

(***************************************************************************)
(* Outbound requests and their timers                                      *)
(***************************************************************************)
\* the length of the run, in ticks
MaxTicks == 7

\* customFetch: 10 second timeout for all requests
FETCH_TIMEOUT == 10000

\* fetchImageWithTimeout(url, timeout = 10000)
IMAGE_TIMEOUT == 10000

\* one tick of the clock, in milliseconds
TickMs == TIMEOUT_MS \div 4

Ticks(ms) == ms \div TickMs

\* the functions that issue a request: customFetch (every backend call),
\* one attempt of sendDiscordNotification, proxyImage, and
\* fetchImageWithTimeout of the Admin page
RequestKinds ==
    {"customFetch", "sendDiscordNotification", "proxyImage",
     "fetchImageWithTimeout"}

\* the setTimeout armed when the request is issued; proxyImage calls
\* fetch(url) with no signal and no timer
timeoutOf(kind) ==
    CASE kind = "customFetch" -> FETCH_TIMEOUT
      [] kind = "sendDiscordNotification" -> TIMEOUT_MS
      [] kind = "fetchImageWithTimeout" -> IMAGE_TIMEOUT
      [] OTHER -> NULL

\* what the function does when the response headers have arrived.
\* customFetch: resolve, finally clearTimeout. sendDiscordNotification:
\* clearTimeout, then return true, or await response.text() when the status
\* is not 2xx. proxyImage: throw when the status is not ok, else await
\* response.blob(). fetchImageWithTimeout: the XMLHttpRequest goes on
\* loading, onload fires with the whole body and the timer stays armed.
onHeaders(kind, ok) ==
    CASE kind = "customFetch" ->
            [pc |-> "settled", clear |-> TRUE, outcome |-> "resolved"]
      [] kind = "sendDiscordNotification" ->
            IF ok THEN [pc |-> "settled", clear |-> TRUE,
                        outcome |-> "resolved"]
                  ELSE [pc |-> "body", clear |-> TRUE, outcome |-> "none"]
      [] kind = "proxyImage" ->
            IF ok THEN [pc |-> "body", clear |-> FALSE, outcome |-> "none"]
                  ELSE [pc |-> "settled", clear |-> FALSE,
                        outcome |-> "rejected"]
      [] OTHER -> [pc |-> "body", clear |-> FALSE, outcome |-> "none"]

\* no request has been issued
IdleNetwork ==
    /\ n_pc = "idle"
    /\ n_clock = 0
    /\ n_start = 0
    /\ n_timer = NULL
    /\ n_outcome = "none"

\* the request is issued: fetch or xhr.send, and setTimeout where the
\* function has one
IssueRequest ==
    /\ n_pc = "idle"
    /\ n_pc' = "pending"
    /\ n_start' = n_clock
    /\ n_timer' = IF timeoutOf(n_kind) = NULL THEN NULL
                  ELSE n_clock + Ticks(timeoutOf(n_kind))
    /\ UNCHANGED <<n_kind, n_clock, n_outcome>>
    /\ UNCHANGED <<dvars, svars, cvars, uvars, avars, pvars,
                   realtimeNotifications>>

\* the response headers arrive
HeadersArrive(ok) ==
    /\ n_pc = "pending"
    /\ LET h == onHeaders(n_kind, ok)
       IN /\ n_pc' = h.pc
          /\ n_outcome' = h.outcome
          /\ n_timer' = IF h.clear THEN NULL ELSE n_timer
    /\ UNCHANGED <<n_kind, n_clock, n_start>>
    /\ UNCHANGED <<dvars, svars, cvars, uvars, avars, pvars,
                   realtimeNotifications>>

\* the response body is complete
BodyArrives ==
    /\ n_pc = "body"
    /\ n_pc' = "settled"
    /\ n_outcome' = "resolved"
    /\ n_timer' = NULL
    /\ UNCHANGED <<n_kind, n_clock, n_start>>
    /\ UNCHANGED <<dvars, svars, cvars, uvars, avars, pvars,
                   realtimeNotifications>>

\* the connection fails: fetch or the body read rejects, xhr.onerror fires
ConnectionFails ==
    /\ n_pc \in {"pending", "body"}
    /\ n_pc' = "settled"
    /\ n_outcome' = "rejected"
    /\ n_timer' = NULL
    /\ UNCHANGED <<n_kind, n_clock, n_start>>
    /\ UNCHANGED <<dvars, svars, cvars, uvars, avars, pvars,
                   realtimeNotifications>>

\* the timer of the request fires: abort, the request is rejected
TimerFires ==
    /\ n_timer # NULL
    /\ n_clock >= n_timer
    /\ n_pc \in {"pending", "body"}
    /\ n_pc' = "settled"
    /\ n_outcome' = "timeout"
    /\ n_timer' = NULL
    /\ UNCHANGED <<n_kind, n_clock, n_start>>
    /\ UNCHANGED <<dvars, svars, cvars, uvars, avars, pvars,
                   realtimeNotifications>>

\* time passes; a timer that is due fires before the clock goes on
Tick ==
    /\ n_clock < MaxTicks
    /\ ~(n_timer # NULL /\ n_clock >= n_timer)
    /\ n_clock' = n_clock + 1
    /\ UNCHANGED <<n_kind, n_pc, n_start, n_timer, n_outcome>>
    /\ UNCHANGED <<dvars, svars, cvars, uvars, avars, pvars,
                   realtimeNotifications>>

NextNetwork ==
    \/ IssueRequest
    \/ \E ok \in BOOLEAN : HeadersArrive(ok)
    \/ BodyArrives
    \/ ConnectionFails
    \/ TimerFires
    \/ Tick

(***************************************************************************)
(* Admin page: the payment proof of the order details                      *)
(***************************************************************************)
\* the number of times order details are opened
MaxViews == 3

\* proxiedPaymentProofUrl: '' | the direct URL or the data URL of the proof
\* of an order | the placeholder
NoImage == [kind |-> "none", of |-> 0]

Placeholder == [kind |-> "placeholder", of |-> 0]

\* the URL the proof of an order is fetched from: payment_proof as it is
\* when it starts with http, else the public URL of the object in bucket
\* payment-proofs (checkout stores the path of the uploaded object)
paymentProofUrl(order) ==
    [host |-> "supabase", object |-> order.payment_proof]

\* isAllowedByCsp: the host is the page's own or i.imgur.com
isAllowedByCsp(url) == url.host \in {"self", "i.imgur.com"}

\* no order details have been opened
IdleDetails ==
    /\ selectedOrder = 0
    /\ orderDetailsOpen = FALSE
    /\ proxiedPaymentProofUrl = NoImage
    /\ paymentProofLoading = FALSE
    /\ conversions = <<>>
    /\ views = 0

\* viewOrderDetails(order): View of row i of the orders list of session 1.
\* The details are an overlay over the list, so the list is clickable only
\* while they are closed.
viewOrderDetails(i) ==
    /\ a_page[1] = "Admin.tsx"
    /\ ~orderDetailsOpen
    /\ views < MaxViews
    /\ i \in 1..Len(a_orders[1])
    /\ views' = views + 1
    /\ selectedOrder' = a_orders[1][i].id.n
    /\ orderDetailsOpen' = TRUE
    /\ LET order == a_orders[1][i]
           url == paymentProofUrl(order)
       IN IF order.payment_proof = 0
          THEN /\ proxiedPaymentProofUrl' = NoImage
               /\ paymentProofLoading' = FALSE
               /\ conversions' = conversions
          ELSE IF isAllowedByCsp(url)
          THEN /\ proxiedPaymentProofUrl' = [kind |-> "direct",
                                             of |-> order.id.n]
               /\ paymentProofLoading' = FALSE
               /\ conversions' = conversions
          ELSE /\ proxiedPaymentProofUrl' = NoImage
               /\ paymentProofLoading' = TRUE
               /\ conversions' = Append(conversions, order.id.n)
    /\ UNCHANGED <<session, auth_pc, isAuthenticated, isAdmin, isAuthLoading,
                   mounted, mounts,
                   authToast>>
    /\ UNCHANGED <<dvars, svars, cvars, uvars, avars, nvars,
                   realtimeNotifications>>

\* the close buttons of the details: setOrderDetailsOpen(false)
closeOrderDetails ==
    /\ orderDetailsOpen
    /\ orderDetailsOpen' = FALSE
    /\ UNCHANGED <<selectedOrder, proxiedPaymentProofUrl, paymentProofLoading,
                   conversions, views, session, auth_pc, isAuthenticated,
                   isAdmin, isAuthLoading, mounted, mounts,
                   authToast>>
    /\ UNCHANGED <<dvars, svars, cvars, uvars, avars, nvars,
                   realtimeNotifications>>

\* the k-th conversion in flight settles: fetchAndConvertToDataUrl resolved
\* with the data URL, or with the placeholder after a failure or a timeout;
\* the then-callback stores what it got
ConversionSettles(k, converted) ==
    /\ k \in 1..Len(conversions)
    /\ proxiedPaymentProofUrl' =
          IF converted THEN [kind |-> "data", of |-> conversions[k]]
                       ELSE Placeholder
    /\ paymentProofLoading' = FALSE
    /\ conversions' = SubSeq(conversions, 1, k - 1)
                         \o SubSeq(conversions, k + 1, Len(conversions))
    /\ UNCHANGED <<selectedOrder, orderDetailsOpen, views, session, auth_pc,
                   isAuthenticated, isAdmin, isAuthLoading, mounted, mounts,
                   authToast>>
    /\ UNCHANGED <<dvars, svars, cvars, uvars, avars, nvars,
                   realtimeNotifications>>

NextDetails ==
    \/ \E i \in 1..2 : viewOrderDetails(i)
    \/ closeOrderDetails
    \/ \E k \in 1..MaxViews, converted \in BOOLEAN : ConversionSettles(k, converted)

(***************************************************************************)
(* Admin page: authentication and the allow-list                           *)
(***************************************************************************)
\* the number of times the Admin page is mounted
MaxMounts == 3

\* the accounts of the auth service; staff is in table admins
Users == {"staff", "member"}

AdminsList == {"staff"}

\* how an awaited call of the backend client ends: with data, with an error
\* in its result, or by throwing
LookupOutcomes == {"row", "norow", "throw"}

\* the toasts of checkAuth and handleLogin
NoPrivileges == "You do not have admin privileges"

LoginFailed == "Login failed"

LoggedIn == "Logged in successfully"

\* what the Admin page renders: the spinner, the login form, or the
\* dashboard (the final return of the component)
Rendered ==
    IF ~mounted THEN "store"
    ELSE IF isAuthLoading THEN "spinner"
    ELSE IF ~isAuthenticated THEN "login"
    ELSE "dashboard"

\* the page as it is mounted: useEffect calls checkAuth
MountedAdmin ==
    /\ mounted = TRUE
    /\ isAuthenticated = FALSE
    /\ isAdmin = FALSE
    /\ isAuthLoading = TRUE
    /\ auth_pc = "getSession"
    /\ authToast = "none"

\* the page of a signed-in member of staff, all checks done
AdminAtWork ==
    /\ mounted = TRUE
    /\ mounts = 1
    /\ session = "staff"
    /\ isAuthenticated = TRUE
    /\ isAdmin = TRUE
    /\ isAuthLoading = FALSE
    /\ auth_pc = "idle"
    /\ authToast = "none"

\* checkAuth: supabase.auth.getSession() settled
GetSessionSettles(o) ==
    /\ mounted
    /\ auth_pc = "getSession"
    /\ IF o = "ok" /\ session # "none"
       THEN /\ isAuthenticated' = TRUE
            /\ auth_pc' = "admins"
            /\ isAuthLoading' = isAuthLoading
       ELSE /\ isAuthLoading' = FALSE
            /\ auth_pc' = "idle"
            /\ isAuthenticated' = isAuthenticated
    /\ authToast' = authToast
    /\ UNCHANGED <<selectedOrder, orderDetailsOpen, proxiedPaymentProofUrl,
                   paymentProofLoading, conversions, views, session, isAdmin,
                   mounted, mounts>>
    /\ UNCHANGED <<dvars, svars, cvars, uvars, avars, nvars,
                   realtimeNotifications>>

\* checkAuth: the lookup in table admins settled. Found: setIsAdmin(true).
\* Not found or error: toast and navigate('/'), which leaves the page.
\* Thrown: the catch only logs. The finally ends the loading state.
AdminsLookupSettles(o) ==
    /\ mounted
    /\ auth_pc = "admins"
    /\ o = "row" => session \in AdminsList
    /\ isAdmin' = IF o = "row" THEN TRUE ELSE isAdmin
    /\ mounted' = IF o = "norow" THEN FALSE ELSE mounted
    /\ isAuthLoading' = FALSE
    /\ auth_pc' = "idle"
    /\ authToast' = IF o = "norow" THEN NoPrivileges ELSE authToast
    /\ UNCHANGED <<selectedOrder, orderDetailsOpen, proxiedPaymentProofUrl,
                   paymentProofLoading, conversions, views, session,
                   isAuthenticated, mounts>>
    /\ UNCHANGED <<dvars, svars, cvars, uvars, avars, nvars,
                   realtimeNotifications>>

\* handleLogin, up to the await of signInWithPassword: the login form is
\* submitted
handleLogin ==
    /\ Rendered = "login"
    /\ auth_pc = "idle"
    /\ auth_pc' = "signIn"
    /\ authToast' = authToast
    /\ UNCHANGED <<selectedOrder, orderDetailsOpen, proxiedPaymentProofUrl,
                   paymentProofLoading, conversions, views, session,
                   isAuthenticated, isAdmin, isAuthLoading, mounted, mounts>>
    /\ UNCHANGED <<dvars, svars, cvars, uvars, avars, nvars,
                   realtimeNotifications>>

\* handleLogin: signInWithPassword settled; user is the account of the
\* credentials typed ("wrong": no account); a sign-in that succeeds starts
\* the session of that account
SignInSettles(user, o) ==
    /\ mounted
    /\ auth_pc = "signIn"
    /\ IF o = "ok" /\ user \in Users
       THEN /\ session' = user
            /\ auth_pc' = "loginAdmins"
       ELSE /\ session' = session
            /\ auth_pc' = "idle"
    /\ authToast' = IF o = "ok" /\ user \in Users THEN authToast
                    ELSE LoginFailed
    /\ UNCHANGED <<selectedOrder, orderDetailsOpen, proxiedPaymentProofUrl,
                   paymentProofLoading, conversions, views, isAuthenticated,
                   isAdmin, isAuthLoading, mounted, mounts>>
    /\ UNCHANGED <<dvars, svars, cvars, uvars, avars, nvars,
                   realtimeNotifications>>

\* handleLogin: the lookup in table admins settled. Found:
\* setIsAuthenticated(true), setIsAdmin(true). Not found: toast, then
\* signOut. Thrown: the catch shows the error.
LoginLookupSettles(o) ==
    /\ mounted
    /\ auth_pc = "loginAdmins"
    /\ o = "row" => session \in AdminsList
    /\ isAuthenticated' = IF o = "row" THEN TRUE ELSE isAuthenticated
    /\ isAdmin' = IF o = "row" THEN TRUE ELSE isAdmin
    /\ auth_pc' = IF o = "norow" THEN "signOut" ELSE "idle"
    /\ authToast' = CASE o = "row" -> LoggedIn
                      [] o = "norow" -> NoPrivileges
                      [] OTHER -> LoginFailed
    /\ UNCHANGED <<selectedOrder, orderDetailsOpen, proxiedPaymentProofUrl,
                   paymentProofLoading, conversions, views, session,
                   isAuthLoading, mounted, mounts>>
    /\ UNCHANGED <<dvars, svars, cvars, uvars, avars, nvars,
                   realtimeNotifications>>

\* handleLogin: supabase.auth.signOut() of the account that is not staff
\* settled; a sign-out that failed leaves the session in place, one that
\* threw is caught and shown
SignOutSettles(o) ==
    /\ mounted
    /\ auth_pc = "signOut"
    /\ session' = IF o = "ok" THEN "none" ELSE session
    /\ authToast' = IF o = "throw" THEN LoginFailed ELSE authToast
    /\ auth_pc' = "idle"
    /\ UNCHANGED <<selectedOrder, orderDetailsOpen, proxiedPaymentProofUrl,
                   paymentProofLoading, conversions, views, isAuthenticated,
                   isAdmin, isAuthLoading, mounted, mounts>>
    /\ UNCHANGED <<dvars, svars, cvars, uvars, avars, nvars,
                   realtimeNotifications>>

\* handleLogout, the Logout button of the dashboard: signOut, then
\* setIsAuthenticated(false) and setIsAdmin(false); when signOut throws the
\* catch only logs
handleLogout(o) ==
    /\ Rendered = "dashboard"
    /\ auth_pc = "idle"
    /\ session' = IF o = "ok" THEN "none" ELSE session
    /\ isAuthenticated' = IF o = "throw" THEN isAuthenticated ELSE FALSE
    /\ isAdmin' = IF o = "throw" THEN isAdmin ELSE FALSE
    /\ authToast' = authToast
    /\ UNCHANGED <<selectedOrder, orderDetailsOpen, proxiedPaymentProofUrl,
                   paymentProofLoading, conversions, views, auth_pc,
                   isAuthLoading, mounted, mounts>>
    /\ UNCHANGED <<dvars, svars, cvars, uvars, avars, nvars,
                   realtimeNotifications>>

\* the user opens the Admin page again after having been sent to the store:
\* a new instance of the component with its initial state
OpenAdminPage ==
    /\ ~mounted
    /\ mounts < MaxMounts
    /\ mounts' = mounts + 1
    /\ mounted' = TRUE
    /\ isAuthenticated' = FALSE
    /\ isAdmin' = FALSE
    /\ isAuthLoading' = TRUE
    /\ auth_pc' = "getSession"
    /\ authToast' = authToast
    /\ UNCHANGED <<selectedOrder, orderDetailsOpen, proxiedPaymentProofUrl,
                   paymentProofLoading, conversions, views, session>>
    /\ UNCHANGED <<dvars, svars, cvars, uvars, avars, nvars,
                   realtimeNotifications>>

NextAuth ==
    \/ \E o \in {"ok", "throw"} : GetSessionSettles(o)
    \/ \E o \in LookupOutcomes : AdminsLookupSettles(o)
    \/ handleLogin
    \/ \E user \in Users \cup {"wrong"}, o \in {"ok", "error"} :
          SignInSettles(user, o)
    \/ \E o \in LookupOutcomes : LoginLookupSettles(o)
    \/ \E o \in {"ok", "error", "throw"} : SignOutSettles(o)
    \/ \E o \in {"ok", "error", "throw"} : handleLogout(o)
    \/ OpenAdminPage

\* the Admin page is not open and nobody is signed in
NoAdminPage ==
    /\ mounted = FALSE
    /\ mounts = 0
    /\ session = "none"
    /\ isAuthenticated = FALSE
    /\ isAdmin = FALSE
    /\ isAuthLoading = TRUE
    /\ auth_pc = "idle"
    /\ authToast = "none"

\* the backend receives call n and answers it. An update of an order or a
\* rank is applied to the row as it is now; the bulk discount runs the
\* stored procedure; ok = FALSE is a call the backend refuses or that does
\* not get through
BackendApplies(n, ok) ==
    /\ n \in 1..Len(a_calls)
    /\ a_calls[n].stage = "sent"
    /\ LET c == a_calls[n]
           onOrder == c.op \in {"status", "notes"}
           bulk == rpc_apply_bulk_discount(rankTable, c.patch.discount,
                                           c.patch.discount_expires_at)
           accepted ==
               /\ ok
               /\ onOrder => acceptsOrderUpdate(orders[c.order], c.patch)
               /\ c.op = "bulk" => ~bulk.raised
       IN /\ orders' = IF accepted /\ onOrder
                       THEN [orders EXCEPT ![c.order] = applyPatch(@, c.patch)]
                       ELSE orders
          /\ rankTable' =
                IF accepted /\ c.op = "rank"
                THEN [rankTable EXCEPT ![c.rank] = applyPatch(@, c.patch)]
                ELSE IF accepted /\ c.op = "bulk" THEN bulk.table
                ELSE rankTable
          /\ a_calls' = [a_calls EXCEPT
                            ![n].stage = "answered",
                            ![n].outcome = IF accepted THEN "applied"
                                                       ELSE "failed",
                            ![n].count = IF accepted /\ c.op = "bulk"
                                         THEN bulk.count ELSE 0]
          /\ a_applied' = IF accepted THEN Append(a_applied, n) ELSE a_applied
    /\ UNCHANGED <<a_page, a_orders, a_viewing, a_ranks, a_bulk, a_toast>>
    /\ UNCHANGED <<dvars, storefront, cvars, uvars, xvars>>

\* a handler resumes after its await
Answered(n, page, ops) ==
    /\ n \in 1..Len(a_calls)
    /\ a_calls[n].stage = "answered"
    /\ a_calls[n].page = page
    /\ a_calls[n].op \in ops
    /\ a_calls' = [a_calls EXCEPT ![n].stage = "done"]

\* (faulty variant: the local orders are updated whatever the backend
\* answered)
ordersAfterUpdate_Optimistic(list, c) ==
    mapOrders(list, [kind |-> "db", n |-> c.order],
              [status |-> c.patch.status])

\* Admin.tsx updateOrderStatus: "if (error) throw error" and then
\* setOrders(prevOrders => prevOrders.map(...))
ordersAfterUpdate(list, c) ==
    IF c.outcome = "applied"
    THEN mapOrders(list, [kind |-> "db", n |-> c.order],
                   [status |-> c.patch.status])
    ELSE list

\* setRealtimeNotifications(prev => [notification, ...prev.slice(0, 9)])
addNotification(prev, notification) ==
    <<notification>> \o SubSeq(prev, 1, IF Len(prev) < 9 THEN Len(prev) ELSE 9)

\* Admin.tsx updateOrderStatus after the await: the local orders are
\* updated from their current value, the success message is shown and a
\* notification is added (the order is in the list the handler closed over:
\* its button was pressed there), or the error is shown
updateOrderStatusSettles(n) ==
    /\ Answered(n, "Admin.tsx", {"status"})
    /\ LET c == a_calls[n]
       IN /\ a_orders' = [a_orders EXCEPT ![c.s] = ordersAfterUpdate(@, c)]
          /\ IF c.outcome = "applied"
             THEN /\ a_toast' = [a_toast EXCEPT ![c.s] = "success"]
                  /\ realtimeNotifications' =
                        [realtimeNotifications EXCEPT ![c.s] =
                            addNotification(@, [order |-> c.order,
                                                status |-> c.patch.status])]
             ELSE /\ a_toast' = [a_toast EXCEPT ![c.s] = "error"]
                  /\ realtimeNotifications' = realtimeNotifications
    /\ UNCHANGED <<orders, rankTable, a_page, a_viewing, a_ranks, a_bulk,
                   a_applied>>
    /\ UNCHANGED <<dvars, storefront, cvars, uvars, nvars, pvars>>

\* OrderManager handleUpdateStatus and handleAddNotes after the await: the
\* local orders and the order viewed are rebuilt from the values the handler
\* closed over
managerSettles(n) ==
    /\ Answered(n, "OrderManager", {"status", "notes"})
    /\ LET c == a_calls[n]
           id == [kind |-> "db", n |-> c.order]
           changes == IF c.op = "notes" THEN c.patch
                      ELSE [c.patch EXCEPT !.processed_at = LocalTime(n)]
       IN IF c.outcome = "applied"
          THEN /\ a_orders' = [a_orders EXCEPT ![c.s] =
                                  mapOrders(c.orders0, id, changes)]
               /\ a_viewing' = [a_viewing EXCEPT ![c.s] =
                                   IF c.viewing0 # NoRow /\ c.viewing0.id = id
                                   THEN applyPatch(c.viewing0, changes)
                                   ELSE @]
               /\ a_toast' = [a_toast EXCEPT ![c.s] = "success"]
          ELSE /\ UNCHANGED <<a_orders, a_viewing>>
               /\ a_toast' = [a_toast EXCEPT ![c.s] = "error"]
    /\ UNCHANGED <<orders, rankTable, a_page, a_ranks, a_bulk, a_applied>>
    /\ UNCHANGED <<dvars, storefront, cvars, uvars, xvars>>

\* Admin.tsx handleUpdateRank and applyDiscountToAllRanks after the await:
\* success message and loadRanks, or the error
rankSettles(n) ==
    /\ Answered(n, "Admin.tsx", {"rank", "bulk"})
    /\ LET c == a_calls[n]
       IN IF c.outcome = "applied"
          THEN /\ a_ranks' = [a_ranks EXCEPT ![c.s] = rankTable]
               /\ a_toast' = [a_toast EXCEPT ![c.s] = "success"]
          ELSE /\ a_ranks' = a_ranks
               /\ a_toast' = [a_toast EXCEPT ![c.s] = "error"]
    /\ UNCHANGED <<orders, rankTable, a_page, a_orders, a_viewing, a_bulk,
                   a_applied>>
    /\ UNCHANGED <<dvars, storefront, cvars, uvars, xvars>>

\* the client that called the stored procedure itself gets its answer
rpcReturns(n) ==
    /\ Answered(n, "api", {"bulk"})
    /\ UNCHANGED <<orders, rankTable, a_page, a_orders, a_viewing, a_ranks,
                   a_bulk, a_toast, a_applied>>
    /\ UNCHANGED <<dvars, storefront, cvars, uvars, xvars>>

\* two staff sessions on the Admin page: orders and ranks
NextAdminPage ==
    \/ \E s \in Sessions, ok \in BOOLEAN : loadOrders(s, ok)
    \/ \E s \in Sessions, i \in 1..2, st \in Statuses :
          updateOrderStatus(s, i, st)
    \/ \E s \in Sessions : loadRanksFor(s)
    \/ \E s \in Sessions, id \in DOMAIN ListedRanks, edit \in RankEdits :
          handleUpdateRank(s, id, edit)
    \/ \E n \in 1..MaxCalls, ok \in BOOLEAN : BackendApplies(n, ok)
    \/ \E n \in 1..MaxCalls : updateOrderStatusSettles(n)
    \/ \E n \in 1..MaxCalls : rankSettles(n)

\* staff sessions working on the orders, on either component
NextOrderStaff ==
    \/ \E s \in Sessions : loadOrders(s, TRUE)
    \/ \E s \in Sessions, i \in 1..2, st \in Statuses :
          updateOrderStatus(s, i, st)
    \/ \E s \in Sessions : fetchOrders(s, TRUE)
    \/ \E s \in Sessions, i \in 1..2 : handleViewOrder(s, i)
    \/ \E s \in Sessions : handleCloseOrderView(s)
    \/ \E s \in Sessions, text \in NoteTexts : editNotes(s, text)
    \/ \E s \in Sessions, i \in 1..2, st \in Statuses, v \in BOOLEAN :
          handleUpdateStatus(s, i, st, v)
    \/ \E s \in Sessions : handleAddNotes(s)
    \/ \E n \in 1..MaxCalls, ok \in BOOLEAN : BackendApplies(n, ok)
    \/ \E n \in 1..MaxCalls : updateOrderStatusSettles(n)
    \/ \E n \in 1..MaxCalls : managerSettles(n)

\* the bulk discount: the Admin page and direct calls of the procedure
NextBulkDiscount ==
    \/ \E s \in Sessions : loadRanksFor(s)
    \/ \E s \in Sessions, typed \in TypedDiscounts : setBulkDiscount(s, typed)
    \/ \E s \in Sessions, e \in {NULL, 2} : setBulkDiscountExpiry(s, e)
    \/ \E s \in Sessions : applyDiscountToAllRanks(s)
    \/ \E v \in RpcDiscounts, e \in {NULL, 2} : CallRpc(v, e)
    \/ \E n \in 1..MaxCalls, ok \in BOOLEAN : BackendApplies(n, ok)
    \/ \E n \in 1..MaxCalls : rankSettles(n)
    \/ \E n \in 1..MaxCalls : rpcReturns(n)


\* one staff session on OrderManager working on the orders
NextOrderManager ==
    \/ \E s \in Sessions : fetchOrders(s, TRUE)
    \/ \E s \in Sessions, i \in 1..2 : handleViewOrder(s, i)
    \/ \E s \in Sessions : handleCloseOrderView(s)
    \/ \E s \in Sessions, text \in NoteTexts : editNotes(s, text)
    \/ \E s \in Sessions, i \in 1..2, st \in Statuses, v \in BOOLEAN :
          handleUpdateStatus(s, i, st, v)
    \/ \E s \in Sessions : handleAddNotes(s)
    \/ \E n \in 1..MaxCalls, ok \in BOOLEAN : BackendApplies(n, ok)
    \/ \E n \in 1..MaxCalls : managerSettles(n)
(***************************************************************************)
(* Specifications                                                          *)
(***************************************************************************)
InitDispatch ==
    /\ webhookUrl \in UrlKinds
    /\ content = OrderNotification
    /\ IdleDispatch
    /\ u_value = <<>>
    /\ IdleUsername
    /\ rankTable = Catalogue
    /\ a_page = [s \in Sessions |-> "Admin.tsx"]
    /\ IdleStaff
    /\ n_kind = "customFetch"
    /\ IdleNetwork
    /\ IdleDetails
    /\ realtimeNotifications = [s \in Sessions |-> <<>>]
    /\ NoAdminPage
    /\ component = "OrderModal.tsx"
    /\ MountedModal
    /\ IdleDiscount

SpecDispatch == InitDispatch /\ [][NextDispatch]_vars

InitSubmit ==
    /\ component \in Components
    /\ MountedModal
    /\ webhookUrl \in UrlKinds
    /\ content = OrderNotification
    /\ IdleDispatch
    /\ IdleDiscount
    /\ u_value = <<>>
    /\ IdleUsername
    /\ rankTable = Catalogue
    /\ a_page = [s \in Sessions |-> "Admin.tsx"]
    /\ IdleStaff
    /\ n_kind = "customFetch"
    /\ IdleNetwork
    /\ IdleDetails
    /\ realtimeNotifications = [s \in Sessions |-> <<>>]
    /\ NoAdminPage

SpecSubmit == InitSubmit /\ [][NextSubmit]_vars

InitDiscount ==
    /\ now \in 1..MaxTime
    /\ c_pc = {}
    /\ price \in Prices
    /\ discount \in Discounts
    /\ expiry \in Expiries
    /\ calc = NoCalc
    /\ webhookUrl = "valid"
    /\ content = OrderNotification
    /\ IdleDispatch
    /\ component = "OrderModal.tsx"
    /\ MountedModal
    /\ u_value = <<>>
    /\ IdleUsername
    /\ rankTable = Catalogue
    /\ a_page = [s \in Sessions |-> "Admin.tsx"]
    /\ IdleStaff
    /\ n_kind = "customFetch"
    /\ IdleNetwork
    /\ IdleDetails
    /\ realtimeNotifications = [s \in Sessions |-> <<>>]
    /\ NoAdminPage

SpecDiscount == InitDiscount /\ [][NextDiscount]_vars

InitUsername ==
    /\ u_value \in Entries
    /\ IdleUsername
    /\ rankTable = Catalogue
    /\ a_page = [s \in Sessions |-> "Admin.tsx"]
    /\ IdleStaff
    /\ n_kind = "customFetch"
    /\ IdleNetwork
    /\ IdleDetails
    /\ realtimeNotifications = [s \in Sessions |-> <<>>]
    /\ NoAdminPage
    /\ webhookUrl = "valid"
    /\ content = OrderNotification
    /\ IdleDispatch
    /\ component = "OrderModal.tsx"
    /\ MountedModal
    /\ IdleDiscount

SpecUsername == InitUsername /\ [][NextUsername]_vars

InitSanitize ==
    /\ webhookUrl = "valid"
    /\ content \in Messages
    /\ IdleDispatch
    /\ component = "OrderModal.tsx"
    /\ MountedModal
    /\ IdleDiscount
    /\ u_value = <<>>
    /\ IdleUsername
    /\ rankTable = Catalogue
    /\ a_page = [s \in Sessions |-> "Admin.tsx"]
    /\ IdleStaff
    /\ n_kind = "customFetch"
    /\ IdleNetwork
    /\ IdleDetails
    /\ realtimeNotifications = [s \in Sessions |-> <<>>]
    /\ NoAdminPage

SpecSanitize == InitSanitize /\ [][NextDispatch]_vars


InitAdminPage ==
    /\ a_page = [s \in Sessions |-> "Admin.tsx"]
    /\ orders = PlacedOrders
    /\ storage = {1, 2}
    /\ rankTable = ListedRanks
    /\ StaffAtWork
    /\ n_kind = "customFetch"
    /\ IdleNetwork
    /\ IdleDetails
    /\ realtimeNotifications = [s \in Sessions |-> <<>>]
    /\ AdminAtWork
    /\ component = "OrderModal.tsx"
    /\ IdleModal
    /\ webhookUrl = "valid"
    /\ content = OrderNotification
    /\ IdleDispatch
    /\ IdleDiscount
    /\ u_value = <<>>
    /\ IdleUsername

SpecAdminPage == InitAdminPage /\ [][NextAdminPage]_vars

InitOrderStaff ==
    /\ a_page = [s \in Sessions |-> IF s = 1 THEN "Admin.tsx" ELSE "OrderManager"]
    /\ orders = SubSeq(PlacedOrders, 1, 1)
    /\ storage = {1}
    /\ rankTable = ListedRanks
    /\ StaffAtWork
    /\ n_kind = "customFetch"
    /\ IdleNetwork
    /\ IdleDetails
    /\ realtimeNotifications = [s \in Sessions |-> <<>>]
    /\ AdminAtWork
    /\ component = "OrderModal.tsx"
    /\ IdleModal
    /\ webhookUrl = "valid"
    /\ content = OrderNotification
    /\ IdleDispatch
    /\ IdleDiscount
    /\ u_value = <<>>
    /\ IdleUsername

SpecOrderStaff == InitOrderStaff /\ [][NextOrderStaff]_vars

InitBulkDiscount ==
    /\ a_page = [s \in Sessions |-> IF s = 1 THEN "Admin.tsx" ELSE "OrderManager"]
    /\ orders = PlacedOrders
    /\ storage = {1, 2}
    /\ rankTable = ListedRanks
    /\ StaffAtWork
    /\ n_kind = "customFetch"
    /\ IdleNetwork
    /\ IdleDetails
    /\ realtimeNotifications = [s \in Sessions |-> <<>>]
    /\ AdminAtWork
    /\ component = "OrderModal.tsx"
    /\ IdleModal
    /\ webhookUrl = "valid"
    /\ content = OrderNotification
    /\ IdleDispatch
    /\ IdleDiscount
    /\ u_value = <<>>
    /\ IdleUsername

SpecBulkDiscount == InitBulkDiscount /\ [][NextBulkDiscount]_vars

InitOrderManager ==
    /\ a_page = [s \in Sessions |-> IF s = 1 THEN "Admin.tsx" ELSE "OrderManager"]
    /\ orders = PlacedOrders
    /\ storage = {1, 2}
    /\ rankTable = ListedRanks
    /\ StaffAtWork
    /\ component = "OrderModal.tsx"
    /\ IdleModal
    /\ webhookUrl = "valid"
    /\ content = OrderNotification
    /\ IdleDispatch
    /\ IdleDiscount
    /\ u_value = <<>>
    /\ IdleUsername
    /\ realtimeNotifications = [s \in Sessions |-> <<>>]
    /\ n_kind = "customFetch"
    /\ IdleNetwork
    /\ IdleDetails
    /\ AdminAtWork

SpecOrderManager == InitOrderManager /\ [][NextOrderManager]_vars

InitNetwork ==
    /\ a_page = [s \in Sessions |-> "Admin.tsx"]
    /\ orders = PlacedOrders
    /\ storage = {1, 2}
    /\ rankTable = ListedRanks
    /\ StaffAtWork
    /\ component = "OrderModal.tsx"
    /\ IdleModal
    /\ webhookUrl = "valid"
    /\ content = OrderNotification
    /\ IdleDispatch
    /\ IdleDiscount
    /\ u_value = <<>>
    /\ IdleUsername
    /\ realtimeNotifications = [s \in Sessions |-> <<>>]
    /\ n_kind \in RequestKinds
    /\ IdleNetwork
    /\ IdleDetails
    /\ AdminAtWork

SpecNetwork == InitNetwork /\ [][NextNetwork]_vars

InitDetails ==
    /\ a_page = [s \in Sessions |-> "Admin.tsx"]
    /\ orders = PlacedOrders
    /\ storage = {1, 2}
    /\ rankTable = ListedRanks
    /\ StaffAtWork
    /\ component = "OrderModal.tsx"
    /\ IdleModal
    /\ webhookUrl = "valid"
    /\ content = OrderNotification
    /\ IdleDispatch
    /\ IdleDiscount
    /\ u_value = <<>>
    /\ IdleUsername
    /\ realtimeNotifications = [s \in Sessions |-> <<>>]
    /\ n_kind = "fetchImageWithTimeout"
    /\ IdleNetwork
    /\ IdleDetails
    /\ AdminAtWork

SpecDetails == InitDetails /\ [][NextDetails]_vars

InitAuth ==
    /\ a_page = [s \in Sessions |-> "Admin.tsx"]
    /\ orders = PlacedOrders
    /\ storage = {1, 2}
    /\ rankTable = ListedRanks
    /\ StaffAtWork
    /\ component = "OrderModal.tsx"
    /\ IdleModal
    /\ webhookUrl = "valid"
    /\ content = OrderNotification
    /\ IdleDispatch
    /\ IdleDiscount
    /\ u_value = <<>>
    /\ IdleUsername
    /\ realtimeNotifications = [s \in Sessions |-> <<>>]
    /\ n_kind = "customFetch"
    /\ IdleNetwork
    /\ IdleDetails
    /\ session \in {"none"} \cup Users
    /\ mounts = 1
    /\ MountedAdmin

SpecAuth == InitAuth /\ [][NextAuth]_vars
\* the requests that settled as a failure
Failed(o) == o \in {"non2xx", "neterr", "timeout"}

AllNon2xx == \A i \in 1..Len(log) : log[i] = "non2xx"

\* C1: against an endpoint that answers every request with a non-2xx status,
\* a call with a valid webhook URL issues exactly MAX_RETRIES + 1 = 3 requests
\* and then returns false.
C1_ExactlyNAttemptsThenFalse ==
    (d_pc = "done" /\ isValidWebhookUrl(webhookUrl) /\ AllNon2xx)
        => (requests = MAX_RETRIES + 1 /\ requests = 3 /\ result = "false")

C1_Witness ==
    /\ d_pc = "done"
    /\ isValidWebhookUrl(webhookUrl)
    /\ log = <<"non2xx", "non2xx", "non2xx">>
    /\ result = "false"

\* C2: when the attempts before attempt k fail and attempt k is answered 2xx,
\* the call returns true having issued exactly k requests (k <= 3), the
\* successful request being the last one issued.
C2_TrueAfterExactlyKAttempts ==
    \A k \in 1..Len(log) :
        log[k] = "ok" =>
            /\ k = Len(log)
            /\ k <= MAX_RETRIES + 1
            /\ \A i \in 1..(k - 1) : Failed(log[i])
            /\ requests = k
            /\ d_pc = "done"
            /\ result = "true"

C2_Witness ==
    /\ d_pc = "done"
    /\ log = <<"timeout", "non2xx", "ok">>
    /\ requests = 3
    /\ result = "true"

\* C3: the promise of sendDiscordNotification never rejects when attempts
\* fail by network error, non-2xx response or timeout: a finished call has
\* resolved to a boolean.
C3_NeverThrows ==
    /\ result # "threw"
    /\ d_pc = "done" => result \in {"true", "false"}

C3_Witness ==
    /\ d_pc = "done"
    /\ log = <<"neterr", "timeout", "non2xx">>
    /\ result = "false"

(***************************************************************************)
(* Order submission                                                        *)
(***************************************************************************)
\* a handleSubmit call has run to its end
Ended == s_pc = "idle" /\ submitNo > 0

\* the submission fails a validation check: missing proof file, empty or
\* malformed username, no rank selected, non-image file, file over 5 MB
Invalid(f) ==
    \/ ~f.paymentProofFile.present
    \/ trim(f.username) = <<>>
    \/ ~usernameRegex(trim(f.username))
    \/ f.selectedRank = ""
    \/ ~f.paymentProofFile.isImage
    \/ f.paymentProofFile.size > 5 * 1024 * 1024

\* C4: when the payment-proof upload or the order insert fails outside demo
\* mode, handleSubmit ends with an error shown and without success toast,
\* completed order or receipt.
C4_BackendFailureSurfaced ==
    (/\ Ended
     /\ component = "OrderModal.tsx"
     /\ ~demo
     /\ \/ fx.upload \in {"error", "nodata", "throw"}
        \/ fx.insert \in {"error", "throw"})
        => (toast = "error" /\ completedAt # submitNo)

\* C5: when the upload and the order insert succeed, handleSubmit ends in
\* the success state (completed order set, receipt open, no error shown)
\* whether the dispatch returned true, returned false or threw.
C5_NotificationNeverBlocks ==
    (Ended /\ fx.upload = "ok" /\ fx.insert = "ok")
        => /\ toast = "success"
           /\ errorMessage = ""
           /\ completedAt = submitNo
           /\ isReceiptOpen
           /\ completedOrder = orderData
           /\ completedOrder.id = orders[Len(orders)].id

C5_Witness ==
    /\ Ended
    /\ fx.upload = "ok"
    /\ fx.insert = "ok"
    /\ fx.dispatches = 1
    /\ fx.notify = "throw"
    /\ toast = "success"
    /\ isReceiptOpen

\* C6: a submission that fails a validation check is rejected with an error
\* shown and attempts no storage upload, no order query or insert and no
\* webhook dispatch.
C6_InvalidRejectedWithoutSideEffect ==
    (submitNo > 0 /\ Invalid(form))
        => /\ s_pc = "idle"
           /\ toast = "error"
           /\ errorMessage # ""
           /\ fx.uploads = 0
           /\ fx.queries = 0
           /\ fx.inserts = 0
           /\ fx.dispatches = 0
           /\ completedAt # submitNo

C6_Witness ==
    /\ submitNo > 0
    /\ form.paymentProofFile.present
    /\ form.paymentProofFile.isImage
    /\ form.paymentProofFile.size > MAX_FILE_SIZE
    /\ usernameRegex(trim(form.username))
    /\ form.selectedRank = "VIP"
    /\ toast = "error"
    /\ fx = NoFx

\* C7: a valid order for rank VIP (base price 5.00, 20% off until tomorrow)
\* persists an order whose price is 4.00 and whose status is pending.
C7_VipChargedDiscountedPrice ==
    (Ended /\ form.selectedRank = "VIP" /\ fx.insert = "ok")
        => /\ orders[Len(orders)].rank = "VIP"
           /\ orders[Len(orders)].price = 400
           /\ orders[Len(orders)].status = "pending"


(***************************************************************************)
(* Discounts                                                               *)
(***************************************************************************)
Applied(f) == f \in c_pc

\* x * (100 - p) / 100 rounded to two decimals, in cents
RoundedEffective == Round2(price * (100 - discount))

\* C8: for a rank whose discount has an expiry in the past,
\* is_discount_active is false and the price shown to the customer is the
\* undiscounted base price.
C8_ExpiredDiscountShowsBasePrice ==
    (discount # NULL /\ discount > 0 /\ expiry # NULL /\ expiry < now)
        => /\ Applied("view") => ~calc.is_discount_active
           /\ Applied("admin") => ~calc.isDiscountActive
           /\ Applied("store") => /\ calc.renderRankPrice = price
                                  /\ calc.storeGetDiscountedPrice = price

\* C9: a discount is reported active if and only if its percentage is
\* greater than 0 and its expiry is unset or later than the current time;
\* with an expiry in the past it is never active, with no expiry and a
\* percentage above 0 it is always active.
C9_ActiveIffPositiveAndUnexpired ==
    LET pct == IF discount = NULL THEN 0 ELSE discount
        active == pct > 0 /\ (expiry = NULL \/ expiry > now)
    IN /\ Applied("admin") =>
            /\ calc.isDiscountActive <=> active
            /\ (expiry # NULL /\ expiry < now) => ~calc.isDiscountActive
            /\ (expiry = NULL /\ pct > 0) => calc.isDiscountActive
       /\ Applied("view") =>
            /\ calc.is_discount_active <=> active
            /\ (expiry # NULL /\ expiry < now) => ~calc.is_discount_active
            /\ (expiry = NULL /\ pct > 0) => calc.is_discount_active

C9_Witness ==
    /\ Applied("admin")
    /\ Applied("view")
    /\ discount = 100
    /\ expiry # NULL
    /\ expiry < now
    /\ ~calc.isDiscountActive
    /\ ~calc.is_discount_active

WellFormedUsername(s) ==
    /\ Len(s) \in 3..16
    /\ \A i \in 1..Len(s) : s[i] \in Lower \cup Upper \cup Digit \cup {"_"}

\* C11: the order form accepts the entered username exactly when it has 3 to
\* 16 characters, all of them ASCII letters, digits or underscores; every
\* other value is rejected (blocked by the form or refused by handleSubmit),
\* and an accepted username goes into the order as it was entered.
C11_UsernameAcceptedIffWellFormed ==
    /\ u_pc = "accepted" => (WellFormedUsername(u_value) /\ u_name = u_value)
    /\ u_pc \in {"blocked", "rejected"} => ~WellFormedUsername(u_value)
    /\ u_pc = "submit" => WellFormedUsername(u_value)

C11_Witness ==
    /\ u_pc = "accepted"
    /\ Len(u_value) = 16
    /\ u_value[16] = "_"

(***************************************************************************)
(* Notification dispatcher: message and attempts                           *)
(***************************************************************************)
\* the free-text fields of a message: content, and the title, description,
\* field names, field values and footer text of its embeds
FreeText(m) ==
    {m.content}
    \cup {m.embeds[i].title : i \in 1..Len(m.embeds)}
    \cup {m.embeds[i].description : i \in 1..Len(m.embeds)}
    \cup {m.embeds[i].footer : i \in 1..Len(m.embeds)}
    \cup UNION {UNION {{m.embeds[i].fields[j].name,
                         m.embeds[i].fields[j].value} :
                            j \in 1..Len(m.embeds[i].fields)} :
                    i \in 1..Len(m.embeds)}

Clean(s) ==
    /\ Len(s) <= 1500
    /\ ~includes(s, AtEveryone)
    /\ ~includes(s, AtHere)

\* C12: in the body of every request the dispatcher issues, no free-text
\* field contains "@everyone" or "@here" and none is longer than 1500.
C12_OutboundTextSanitized ==
    requests > 0 => \A s \in FreeText(body) : Clean(s)

C12_Witness ==
    /\ requests > 0
    /\ Len(content.content) > 1500
    /\ includes(content.content, AtEveryone)
    /\ Len(body.content) = 1500
    /\ includes(body.content, <<"@", ZWSP, "e">>)

\* C13: with a webhook URL that is unset or not a webhook URL the call
\* issues no request, never throws and ends returning false.
C13_DisabledWithoutRequest ==
    ~(webhookUrl = "valid")
        => /\ requests = 0
           /\ log = <<>>
           /\ timers = {}
           /\ result \in {"none", "false"}
           /\ d_pc \in {"idle", "done"}
           /\ d_pc = "done" => result = "false"

C13_Witness ==
    /\ webhookUrl = "invalid"
    /\ d_pc = "done"
    /\ result = "false"
    /\ requests = 0

\* C14: the only timer ever pending is the one of the attempt whose request
\* is in flight (the timer of a settled attempt is cleared before the next
\* attempt starts), and a controller is aborted only during the request of
\* its own attempt, which is then the attempt that times out.
C14_TimerScopedToAttempt ==
    /\ timers \subseteq (IF d_pc = "fetch" THEN {attempt} ELSE {})
    /\ \A a \in aborted : a + 1 <= Len(log) /\ log[a + 1] = "timeout"
    /\ \A i \in 1..Len(log) : log[i] = "timeout" => (i - 1) \in aborted

C14_Witness ==
    /\ d_pc = "fetch"
    /\ attempt = 1
    /\ log = <<"timeout">>
    /\ aborted = {0}
    /\ timers = {1}

\* C15: the messages delivered never outnumber the requests, and more than
\* one is delivered only when an attempt the client gave up on (timeout or
\* network error) was delivered; the witness is a call whose first attempt
\* timed out but was delivered and whose retry was delivered too.
C15_DuplicatesOnlyAfterLostResponse ==
    /\ delivered <= requests
    /\ delivered > 1 => \E i \in 1..Len(log) : log[i] \in {"timeout", "neterr"}
    /\ Cardinality({i \in 1..Len(log) : log[i] = "ok"}) <= 1

C15_Witness ==
    /\ d_pc = "done"
    /\ result = "true"
    /\ log = <<"timeout", "ok">>
    /\ delivered = 2

(***************************************************************************)
(* Order submission in demo mode                                           *)
(***************************************************************************)
\* C16: a valid submission made while demo mode is active sends no insert
\* and no dispatch, stores no order row, and ends in the success state with
\* a locally generated order id.
C16_DemoSkipsPersistence ==
    (submitNo > 0 /\ demo /\ ~Invalid(form))
        => /\ fx.inserts = 0
           /\ fx.dispatches = 0
           /\ \A i \in 1..Len(orders) : orders[i].id # orderData.id
           /\ Ended => /\ toast = "success"
                       /\ completedAt = submitNo
                       /\ isReceiptOpen
                       /\ completedOrder = orderData
                       /\ completedOrder.id.kind = "fake"

C16_Witness ==
    /\ Ended
    /\ demo
    /\ ~Invalid(form)
    /\ fx.uploads = 1
    /\ fx.check = "error"
    /\ toast = "success"
    /\ completedOrder.id.kind = "fake"

(***************************************************************************)
(* Staff sessions: order status, order rows, bulk discount, concurrency    *)
(***************************************************************************)
\* the backend applies status call n and the row takes the status sent
StatusApplied(n) ==
    /\ BackendApplies(n, TRUE)
    /\ orders'[a_calls[n].order].status = a_calls[n].patch.status

\* C17: on the Admin page every status other than the one an order row shows
\* can be requested, whatever that status is (completed and rejected are not
\* terminal), the backend applies the request, and the stored status is
\* always one of pending, completed, rejected.
C17_TerminalityNotEnforced ==
    /\ \A i \in 1..Len(orders) : orders[i].status \in Statuses
    /\ \A s \in Sessions :
          (a_page[s] = "Admin.tsx" /\ Len(a_calls) < MaxCalls)
              => \A i \in 1..Len(a_orders[s]) :
                    \A t \in Statuses \ {a_orders[s][i].status} :
                        ENABLED updateOrderStatus(s, i, t)
    /\ \A n \in 1..Len(a_calls) :
          (a_calls[n].stage = "sent" /\ a_calls[n].page = "Admin.tsx"
              /\ a_calls[n].op = "status")
              => ENABLED StatusApplied(n)

C17_Witness ==
    /\ Len(a_applied) = 2
    /\ LET first == a_calls[a_applied[1]]
           second == a_calls[a_applied[2]]
       IN /\ first.page = "Admin.tsx" /\ second.page = "Admin.tsx"
          /\ first.op = "status" /\ second.op = "status"
          /\ first.order = second.order
          /\ first.s = second.s
          /\ first.patch.status \in {"completed", "rejected"}
          /\ second.patch.status = "pending"
          /\ orders[second.order].status = "pending"

\* the columns a staff update may name
StaffColumns == {"status", "processed_at", "processed_by", "notes"}

\* C18: no step of the storefront or of the staff pages removes an order row
\* or changes its username, platform, rank, price or payment proof; a row is
\* added only while the checkout's insert is under way, and a row changes
\* only when the backend applies a staff update of its status (with
\* processed_at and processed_by) or of its notes.
C18_OrdersOnlyChangedByStaff ==
    [][/\ Len(orders') >= Len(orders)
       /\ Len(orders') > Len(orders) => s_pc = "insert"
       /\ \A i \in 1..Len(orders) :
             /\ OrderFacts(orders'[i]) = OrderFacts(orders[i])
             /\ orders'[i] # orders[i]
                   => \E n \in 1..Len(a_calls) :
                         /\ a_calls[n].stage = "sent"
                         /\ a_calls'[n].outcome = "applied"
                         /\ a_calls[n].op \in {"status", "notes"}
                         /\ a_calls[n].order = i
                         /\ DOMAIN a_calls[n].patch \subseteq StaffColumns
                         /\ orders'[i] = applyPatch(orders[i],
                                                    a_calls[n].patch)]_vars

C18_Witness ==
    /\ Len(orders) = 1
    /\ Len(a_applied) = 2
    /\ orders[1].status = "completed"
    /\ orders[1].processed_by = 2
    /\ orders[1].processed_at # NULL
    /\ orders[1].notes = "paid"
    /\ OrderFacts(orders[1]) = OrderFacts(PlacedOrders[1])

\* every rank of the table carries the discount and the expiry of the call
AllRanksCarry(table, patch) ==
    \A r \in DOMAIN table :
        /\ table[r].discount = patch.discount
        /\ table[r].discount_expires_at = patch.discount_expires_at

\* C19: the Admin page never sends a bulk discount outside 0..100; when the
\* stored procedure is called with a value outside 0..100 the call fails and
\* no rank changes; when a call with a value inside 0..100 is applied, every
\* rank carries that discount and expiry and the call returns the number of
\* ranks.
C19_BulkDiscountRange ==
    [][/\ \A n \in (Len(a_calls) + 1)..Len(a_calls') :
             (a_calls'[n].op = "bulk" /\ a_calls'[n].page = "Admin.tsx")
                 => a_calls'[n].patch.discount \in 0..100
       /\ \A n \in 1..Len(a_calls) :
             (a_calls[n].op = "bulk" /\ a_calls[n].stage = "sent"
                 /\ a_calls'[n].stage = "answered")
                 => IF a_calls[n].patch.discount \notin 0..100
                    THEN /\ a_calls'[n].outcome = "failed"
                         /\ rankTable' = rankTable
                    ELSE a_calls'[n].outcome = "applied"
                            => /\ AllRanksCarry(rankTable', a_calls[n].patch)
                               /\ a_calls'[n].count
                                     = Cardinality(DOMAIN rankTable)]_vars

C19_Witness ==
    /\ Len(a_calls) = 2
    /\ a_calls[1].page = "api"
    /\ a_calls[1].patch.discount = 101
    /\ a_calls[1].outcome = "failed"
    /\ a_calls[2].page = "Admin.tsx"
    /\ a_calls[2].patch.discount = 50
    /\ a_calls[2].patch.discount_expires_at = 2
    /\ a_calls[2].outcome = "applied"
    /\ a_calls[2].count = 2
    /\ a_applied = <<2>>
    /\ AllRanksCarry(rankTable, a_calls[2].patch)
    /\ a_toast[1] = "success"

\* the backend accepts call n
Accepted(n) ==
    /\ BackendApplies(n, TRUE)
    /\ a_calls'[n].outcome = "applied"

\* the call applied last among the applied calls that satisfy want
LastApplied(want(_)) ==
    LET ks == {k \in 1..Len(a_applied) : want(a_calls[a_applied[k]])}
    IN IF ks = {} THEN 0
       ELSE a_applied[CHOOSE k \in ks : \A j \in ks : j <= k]

\* C20: every update of an order or a rank that reaches the backend is
\* accepted whatever the row holds by then and whichever session sent it,
\* and the persisted status of an order, and price and discount of a rank,
\* are those of the update the backend applied last.
C20_LastWriteWins ==
    /\ \A n \in 1..Len(a_calls) :
          a_calls[n].stage = "sent" => ENABLED Accepted(n)
    /\ \A i \in 1..Len(orders) :
          LET onOrder(c) == c.op = "status" /\ c.order = i
              n == LastApplied(onOrder)
          IN n # 0 => orders[i].status = a_calls[n].patch.status
    /\ \A r \in DOMAIN rankTable :
          LET onRank(c) == c.op = "rank" /\ c.rank = r
              n == LastApplied(onRank)
          IN n # 0 => /\ rankTable[r].price = a_calls[n].patch.price
                      /\ rankTable[r].discount = a_calls[n].patch.discount

C20_Witness ==
    /\ a_applied = <<2, 1>>
    /\ a_calls[1].s # a_calls[2].s
    /\ a_calls[1].op = "status" /\ a_calls[2].op = "status"
    /\ a_calls[1].order = a_calls[2].order
    /\ a_calls[1].patch.status # a_calls[2].patch.status
    /\ orders[a_calls[1].order].status = a_calls[1].patch.status

(***************************************************************************)
(* Order submission: orphaned uploads, notification, demo mode             *)
(***************************************************************************)
\* the table check or the insert of the running submission failed
LaterStepFailed ==
    fx.check \in {"error", "throw"} \/ fx.insert \in {"error", "throw"}

\* C21: no step removes a file from storage, and once the upload of a
\* submission has succeeded and its table check or insert has failed, the
\* file is in storage and no order row refers to it.
C21_UploadNotRolledBack ==
    [][/\ storage \subseteq storage'
       /\ (fx'.upload = "ok" /\ LaterStepFailed')
             => /\ submitNo' \in storage'
                /\ \A i \in 1..Len(orders') :
                      orders'[i].payment_proof # submitNo']_vars

C21_Witness ==
    /\ Ended
    /\ ~demo
    /\ fx.upload = "ok"
    /\ fx.check = "ok"
    /\ fx.insert = "throw"
    /\ toast = "error"
    /\ submitNo \in storage
    /\ \A i \in 1..Len(orders) : orders[i].payment_proof # submitNo

\* C23: handleSubmit dispatches a notification only after the insert of the
\* order succeeded.
C23_NotifiedOnlyAfterInsert ==
    fx.dispatches = 1 => fx.insert = "ok"

\* C24: demo mode, once on, stays on, and while it is on no step inserts an
\* order or starts a dispatch, whatever the backend answers.
C24_DemoModeMonotonic ==
    [][demoMode => /\ demoMode'
                   /\ orders' = orders
                   /\ fx'.inserts <= fx.inserts
                   /\ fx'.dispatches <= fx.dispatches]_vars

C24_Witness ==
    /\ Ended
    /\ submitNo = 2
    /\ demo
    /\ demoMode
    /\ ~Invalid(form)
    /\ fx.upload = "ok"
    /\ fx.check = "ok"
    /\ fx.inserts = 0
    /\ fx.dispatches = 0
    /\ orders = <<>>
    /\ toast = "success"

(***************************************************************************)
(* WebhookService: sequence of attempts                                    *)
(***************************************************************************)
\* C28: an attempt is started only when every earlier attempt has settled
\* and one retry delay has been waited per earlier attempt; a call that has
\* returned waited one delay less than it made attempts, so none after its
\* last attempt, failed or successful.
C28_AttemptsSequentialOneDelay ==
    /\ d_pc \in {"fetch", "text", "delay"}
          => /\ requests = attempt + 1
             /\ delays = attempt
             /\ Len(log) = IF d_pc = "fetch" THEN attempt ELSE attempt + 1
    /\ d_pc = "delay" => attempt < MAX_RETRIES
    /\ d_pc = "loop" => /\ requests = attempt
                        /\ delays = attempt
                        /\ Len(log) = attempt
    /\ (d_pc = "done" /\ requests > 0)
          => /\ delays = requests - 1
             /\ Len(log) = requests
             /\ result = "true" <=> log[Len(log)] = "ok"
    /\ \A i \in 1..Len(log) : log[i] = "ok" => i = Len(log)

C28_Witness ==
    /\ d_pc = "done"
    /\ result = "false"
    /\ log = <<"non2xx", "timeout", "neterr">>
    /\ requests = MAX_RETRIES + 1
    /\ delays = MAX_RETRIES

(***************************************************************************)
(* Request timeouts, payment proof, OrderManager list, admin gate          *)
(***************************************************************************)
\* C22: a request that has not settled was issued no longer ago than the
\* longest timeout of the application, whichever function issued it and
\* whether the remote side is silent or stalls in the response body.
C22_EveryRequestTimesOut ==
    n_pc \in {"pending", "body"}
        => n_clock - n_start <= Ticks(FETCH_TIMEOUT)

\* C25: while the order details are open, the payment proof displayed (the
\* direct URL or a converted data URL) is the proof of the selected order.
C25_ProofOfSelectedOrder ==
    (orderDetailsOpen /\ proxiedPaymentProofUrl.kind \in {"data", "direct"})
        => proxiedPaymentProofUrl.of = selectedOrder

\* call n is an OrderManager update that the backend applied and whose
\* handler has finished
ManagerDone(n) ==
    /\ a_calls[n].page = "OrderManager"
    /\ a_calls[n].op \in {"status", "notes"}
    /\ a_calls[n].stage = "done"
    /\ a_calls[n].outcome = "applied"

\* the local row of call n shows the status or the notes the call sent
ShowsChange(n) ==
    LET c == a_calls[n]
        row == a_orders[c.s][c.order]
    IN IF c.op = "status" THEN row.status = c.patch.status
                          ELSE row.notes = c.patch.notes

\* C26: when two OrderManager updates of one session on distinct orders have
\* both been applied by the backend and both handlers have finished, the
\* local orders list shows both changes.
C26_BothChangesInLocalList ==
    \A m, n \in 1..Len(a_calls) :
        (/\ ManagerDone(m) /\ ManagerDone(n)
         /\ a_calls[m].s = a_calls[n].s
         /\ a_calls[m].order # a_calls[n].order)
            => ShowsChange(m) /\ ShowsChange(n)

\* C27: the dashboard is rendered only when the lookup in table admins found
\* the user of the session, and never for a session of a user that is not in
\* the allow-list.
C27_DashboardOnlyForAdmins ==
    Rendered = "dashboard" => (isAdmin /\ session \in AdminsList)

\* C29: with staff working through OrderManager only, the status of a stored
\* order changes only from pending, and only to completed or rejected.
C29_OnlyFromPending ==
    [][\A i \in 1..Len(orders) :
          orders'[i].status # orders[i].status
              => /\ orders[i].status = "pending"
                 /\ orders'[i].status \in {"completed", "rejected"}]_vars

(***************************************************************************)
(* Staff sessions: a status update the backend rejects                     *)
(***************************************************************************)
\* the handler of status call n finishes in this step
StatusSettles(n) ==
    /\ a_calls[n].op = "status"
    /\ a_calls[n].stage = "answered"
    /\ a_calls'[n].stage = "done"

\* C30: when the handler of a status update that the backend rejected
\* finishes, the session's orders list, the order it views and its
\* notifications are as before and an error is shown; the status of a row
\* of a session's list changes only when the session reloads the list or
\* when the handler of one of its updates that the backend applied finishes.
C30_RejectedUpdateLeavesLocalState ==
    [][/\ \A n \in 1..Len(a_calls) :
             (StatusSettles(n) /\ a_calls[n].outcome = "failed")
                 => /\ a_orders' = a_orders
                    /\ a_viewing' = a_viewing
                    /\ realtimeNotifications' = realtimeNotifications
                    /\ selectedOrder' = selectedOrder
                    /\ a_toast'[a_calls[n].s] = "error"
       /\ \A s \in Sessions :
             (\E i \in 1..Len(a_orders[s]) :
                 /\ i \in 1..Len(a_orders'[s])
                 /\ a_orders'[s][i].status # a_orders[s][i].status)
                 => \/ a_orders'[s] = orders /\ a_calls' = a_calls
                    \/ \E n \in 1..Len(a_calls) :
                          /\ a_calls[n].stage = "answered"
                          /\ a_calls'[n].stage = "done"
                          /\ a_calls[n].s = s
                          /\ a_calls[n].outcome = "applied"]_vars

C30_Witness ==
    \E n \in 1..Len(a_calls) :
        LET c == a_calls[n]
        IN /\ c.page = "Admin.tsx"
           /\ c.op = "status"
           /\ c.stage = "done"
           /\ c.outcome = "failed"
           /\ Len(a_calls) = 1
           /\ a_toast[c.s] = "error"
           /\ a_orders[c.s][c.order].status = "pending"
           /\ c.patch.status = "completed"
           /\ orders[c.order].status = "pending"
           /\ realtimeNotifications[c.s] = <<>>

====
